---- MODULE Spec2Model ----
(***************************************************************************)
(* Model of the schedule generation pipeline of ScheduleSam:               *)
(*   - generateScheduleWithAI, in its two variants (src/unnamed/part_002,  *)
(*     lines 102-411 and 836-1280),                                        *)
(*   - the response recovery functions parseAIScheduleResponse,            *)
(*     extractFallbackScheduleData, reconstructFromPatterns,               *)
(*   - the normalisation processScheduleResult,                            *)
(*   - the document triage of src/unnamed/part_003: categorizeContent,     *)
(*     splitIntoSections, analyzeDocument, processContentWithOptions,      *)
(*     analyzeDocuments,                                                   *)
(*   - DbStorage.setActiveBaseline and DbStorage.deleteActivity            *)
(*     (src/unnamed/part_002, from line 1343 on),                          *)
(*   - handleGenerateSchedule of the schedule page (src/unnamed/part_000). *)
(*                                                                         *)
(* JavaScript values are tagged records of one shape (JV), so that every   *)
(* comparison is between values of the same type.  Text is a sequence of   *)
(* symbols; every symbol counts as one character.  Dates are day numbers   *)
(* (the server runs in UTC).                                               *)
(***************************************************************************)
EXTENDS Integers, Sequences, FiniteSets, TLC

VARIABLES
    variant,    \* 1: generateScheduleWithAI of lines 102-411, 2: of lines 836-1280
    request,    \* the ScheduleAIRequest: [type, startDate, nFiles]
    pc,         \* position of the request
    filesRead,  \* per uploaded file, in order: TRUE read, FALSE read failed
    calls,      \* number of poe.chat.completions.create calls issued
    api,        \* the apiCall promise: "idle", "pending", "resolved", "rejected"
    timer,      \* the setTimeout of the race: "unarmed", "armed", "fired"
    winner,     \* what settled Promise.race: "none", "response", "error", "timeout"
    content,    \* the raw text the recovery worked on (a sequence of symbols)
    recovered,  \* what parseAIScheduleResponse returned, and by which strategy
    parsed,     \* what the recovery handed to the normalisation
    outcome,    \* "none", "success", "fallback", "empty", "thrown"
    result,     \* the ScheduleAIResponse returned
    renorm,     \* result.activities passed through the normalisation again
    sectionContent,  \* categorizeContent: its argument
    bestCategory,    \* categorizeContent: the category returned
    analysis,        \* processContentWithOptions: the DocumentAnalysis given
    options,         \* processContentWithOptions: the ProcessingOptions given
    contentToProcess,   \* processContentWithOptions: the string returned
    filePaths,       \* analyzeDocuments: its argument
    storage,         \* the object storage: per path a document, or unreadable
    analyses,        \* analyzeDocuments: the analyses pushed so far
    documentContent,    \* splitIntoSections: the content given (its lines)
    documentSections,   \* splitIntoSections: the sections returned
    baselineRows,       \* table baselines: per id its projectId and isActive
    baselineCalls,      \* the setActiveBaseline calls and the statement each is at
    activityRows,       \* table activities: the ids of its rows
    relationshipRows,   \* table relationships: <<predecessorId, successorId>>
    deletion,           \* the deleteActivity call: id, statement it is at, rows before it
    isGenerating,       \* useState(false) of the schedule page, as last rendered
    generationProgress, \* useState("") of the schedule page
    closure,            \* the isGenerating in scope of the running handleGenerateSchedule
    progressTimers,     \* progressTimer1..3: "unset", "armed", "fired", "cleared"
    mutation,           \* generateScheduleMutation.mutateAsync: "idle", "pending", "settled"
    clock               \* seconds since handleGenerateSchedule was called

\* the state of the document triage (src/unnamed/part_003)
triageVars == <<sectionContent, bestCategory, analysis, options, contentToProcess, filePaths,
                storage, analyses, documentContent, documentSections>>

\* the tables of DbStorage and the calls running on them (src/unnamed/part_002)
storeVars == <<baselineRows, baselineCalls, activityRows, relationshipRows, deletion>>

\* the state of the schedule page (src/unnamed/part_000)
pageVars == <<isGenerating, generationProgress, closure, progressTimers, mutation, clock>>

\* the state of a generation request, its position apart
scheduleData == <<variant, request, filesRead, calls, api, timer, winner, content,
                  recovered, parsed, outcome, result, renorm>>

vars == <<pc, scheduleData, triageVars, storeVars, pageVars>>

\* no triage function is running
TriageIdle ==
    /\ sectionContent = <<>>
    /\ bestCategory = ""
    /\ analysis = <<>>
    /\ options = <<>>
    /\ contentToProcess = <<>>
    /\ filePaths = <<>>
    /\ storage = <<>>
    /\ analyses = <<>>
    /\ documentContent = <<>>
    /\ documentSections = <<>>

\* no DbStorage call is running; the tables are empty
StoreIdle ==
    /\ baselineRows = <<>>
    /\ baselineCalls = <<>>
    /\ activityRows = {}
    /\ relationshipRows = {}
    /\ deletion = <<>>

\* the schedule page as first rendered
PageIdle ==
    /\ isGenerating = FALSE
    /\ generationProgress = ""
    /\ closure = FALSE
    /\ progressTimers = <<"unset", "unset", "unset">>
    /\ mutation = "idle"
    /\ clock = 0

-----------------------------------------------------------------------------
(* Bounds of the model *)

MaxActs == 2
MaxFiles == 2

-----------------------------------------------------------------------------
(* JavaScript values *)

JV(k, n, s, a) == [k |-> k, n |-> n, s |-> s, a |-> a]
Absent == JV("absent", 0, "", <<>>)      \* undefined / property missing
Null == JV("null", 0, "", <<>>)
NaN == JV("nan", 0, "", <<>>)
Num(n) == JV("num", n, "", <<>>)
Str(s) == JV("str", 0, s, <<>>)          \* a string that is no date and no number
NumStr(n) == JV("numstr", n, "", <<>>)   \* a string holding the decimal digits of n
DateStr(d) == JV("date", d, "", <<>>)    \* the string YYYY-MM-DD of day number d
Bool(b) == JV("bool", IF b THEN 1 ELSE 0, "", <<>>)
Arr(a) == JV("arr", 0, "", a)            \* an array of strings
Obj == JV("obj", 0, "", <<>>)            \* an object that is no array

\* ToBoolean
Truthy(v) ==
    CASE v.k \in {"absent", "null", "nan"} -> FALSE
      [] v.k = "num" -> v.n # 0
      [] v.k = "bool" -> v.n = 1
      [] v.k = "str" -> v.s # ""
      [] OTHER -> TRUE

\* a || b
Or(a, b) == IF Truthy(a) THEN a ELSE b

\* Number(v)
ToNumber(v) ==
    CASE v.k = "num" -> v
      [] v.k = "numstr" -> Num(v.n)
      [] v.k = "bool" -> Num(v.n)
      [] v.k = "null" -> Num(0)
      [] v.k = "str" -> IF v.s = "" THEN Num(0) ELSE NaN
      [] v.k = "arr" -> IF v.a = <<>> THEN Num(0) ELSE NaN
      [] OTHER -> NaN

\* Boolean(v)
ToBoolean(v) == Bool(Truthy(v))

\* Array.isArray(v)
IsArray(v) == v.k = "arr"

\* the day of new Date().toISOString().split('T')[0]
Today == 100

\* new Date(v) is a valid Date (a date string, or a number of milliseconds)
ValidDate(v) == v.k \in {"date", "num", "bool", "null"}

\* the day number of new Date(v), for a valid Date
DayOf(v) == IF v.k = "date" THEN v.n ELSE 0

\* `A${index.toString().padStart(3, '0')}`
PositionalId(index) ==
    IF index < 10 THEN "A00" \o ToString(index)
    ELSE IF index < 100 THEN "A0" \o ToString(index)
    ELSE "A" \o ToString(index)

\* `1.${index + 1}`
PositionalWbs(index) == "1." \o ToString(index + 1)

-----------------------------------------------------------------------------
(* Activities: one record shape for the raw activity the model sent and for
   the activity the pipeline returns; a missing property is Absent. *)

ActFields == {"activityId", "name", "activityName", "originalDuration",
              "duration", "remainingDuration", "earlyStart", "startDate",
              "finishDate", "earlyFinish", "predecessors", "successors",
              "status", "percentComplete", "totalFloat", "freeFloat",
              "isCritical", "wbs"}

EmptyAct == [f \in ActFields |-> Absent]

With(act, field, v) == [act EXCEPT ![field] = v]

-----------------------------------------------------------------------------
(* What JSON.parse returned: an object (k = "obj") with its top-level
   properties, or a value that is no object (k = "lit").  activities.k = "arr"
   with the elements in items when the property is an array of objects. *)

ParsedObj(activities, items, schedule, summary) ==
    [k |-> "obj", lit |-> Absent, activities |-> activities, items |-> items,
     schedule |-> schedule, summary |-> summary]

ParsedLit(v) ==
    [k |-> "lit", lit |-> v, activities |-> Absent, items |-> <<>>,
     schedule |-> Absent, summary |-> Absent]

\* the null that parseAIScheduleResponse and extractFallbackScheduleData return
ParsedNull == ParsedLit(Null)

\* The ScheduleAIResponse
Response(activities, summary, criticalPath) ==
    [activities |-> activities, summary |-> summary, criticalPath |-> criticalPath]

NoResponse == Response(<<>>, Absent, <<>>)

-----------------------------------------------------------------------------
(* processScheduleResult (variant 1) and the same code inline in variant 2 *)

\* Number(activity.originalDuration || activity.duration) || 5
NormDuration(activity) ==
    Or(ToNumber(Or(activity.originalDuration, activity.duration)), Num(5))

\* activity.earlyStart || activity.startDate || request.startDate || today
StartDateStr(activity, req) ==
    Or(Or(Or(activity.earlyStart, activity.startDate), req.startDate), DateStr(Today))

\* finishDate.setDate(finishDate.getDate() + duration); toISOString().split('T')[0]
NormFinish(activity, req) ==
    DateStr(DayOf(StartDateStr(activity, req)) + NormDuration(activity).n)

\* earlyStart given the finish date in place of the start date
NormEarlyStartFinish(activity, req) == NormFinish(activity, req)

\* the earlyStart property of the returned activity
NormEarlyStart(activity, req) == StartDateStr(activity, req)

\* activity.activityId || `A${index.toString().padStart(3, '0')}`
NormActivityId(activity, index) == Or(activity.activityId, Str(PositionalId(index)))

\* Array.isArray(activity.predecessors) ? activity.predecessors : []
NormPredecessors(activity) ==
    IF IsArray(activity.predecessors) THEN activity.predecessors ELSE Arr(<<>>)

\* the status property: variant 1 keeps a truthy status, variant 2 maps it
NormStatus(activity, v) ==
    IF v = 1 THEN Or(activity.status, Str("NotStarted"))
    ELSE CASE activity.status = Str("Not Started") -> Str("Not Started")
           [] activity.status = Str("In Progress") -> Str("In Progress")
           [] activity.status = Str("Completed") -> Str("Completed")
           [] activity.status = Str("NotStarted") -> Str("Not Started")
           [] activity.status = Str("InProgress") -> Str("In Progress")
           [] OTHER -> Str("Not Started")

\* Boolean(activity.isCritical) || false
NormIsCritical(activity) == ToBoolean(activity.isCritical)

\* the callback of (result.activities || []).map
NormActivity(activity, index, req, v) ==
    [activityId |-> NormActivityId(activity, index),
     activityName |-> Or(Or(activity.name, activity.activityName), Str("Unnamed Activity")),
     name |-> Or(Or(activity.name, activity.activityName), Str("Unnamed Activity")),
     duration |-> NormDuration(activity),
     originalDuration |-> NormDuration(activity),
     remainingDuration |-> NormDuration(activity),
     startDate |-> StartDateStr(activity, req),
     finishDate |-> NormFinish(activity, req),
     earlyStart |-> NormEarlyStart(activity, req),
     earlyFinish |-> NormFinish(activity, req),
     predecessors |-> NormPredecessors(activity),
     successors |-> IF IsArray(activity.successors) THEN activity.successors ELSE Arr(<<>>),
     status |-> NormStatus(activity, v),
     percentComplete |-> Or(ToNumber(activity.percentComplete), Num(0)),
     totalFloat |-> Or(ToNumber(activity.totalFloat), Num(0)),
     freeFloat |-> Or(ToNumber(activity.freeFloat), Num(0)),
     isCritical |-> NormIsCritical(activity),
     wbs |-> Or(activity.wbs, Str(PositionalWbs(index)))]

\* toISOString throws a RangeError on an Invalid Date
NormThrows(items, req) ==
    \E i \in 1..Len(items) : ~ValidDate(StartDateStr(items[i], req))

\* activities.filter(a => a.isCritical).map(a => a.activityId)
\* criticalPath made of the ids of all the activities
CriticalPathAll(acts) == [i \in 1..Len(acts) |-> acts[i].activityId]

RECURSIVE CriticalPathFrom(_, _)
CriticalPathFrom(acts, i) ==
    IF i > Len(acts) THEN <<>>
    ELSE (IF Truthy(acts[i].isCritical) THEN <<acts[i].activityId>> ELSE <<>>)
         \o CriticalPathFrom(acts, i + 1)

CriticalPath(acts) == CriticalPathFrom(acts, 1)

\* `Generated ${activities.length} activities`
GeneratedSummary(n) == Str("Generated " \o ToString(n) \o " activities")

\* The outcome of a call that may throw: the value returned, or threw = TRUE
Returned(r) == [threw |-> FALSE, value |-> r]
Thrown == [threw |-> TRUE, value |-> NoResponse]

\* processScheduleResult(result, request); res is an object
\* (result.activities || []).map throws a TypeError when the truthy
\* activities property is no array
processScheduleResult(res, req, v) ==
    IF Truthy(res.activities) /\ ~IsArray(res.activities) THEN Thrown
    ELSE IF NormThrows(res.items, req) THEN Thrown
    ELSE LET acts == [i \in 1..Len(res.items) |->
                         NormActivity(res.items[i], i - 1, req, v)]
         IN Returned(Response(acts,
                              Or(res.summary, GeneratedSummary(Len(acts))),
                              CriticalPath(acts)))

-----------------------------------------------------------------------------
(* Text.  A symbol is one of: a prose word ("w"), the prose word Activity
   ("Act"), a newline ("nl"), the fence ```json ("fj"), the fence ``` ("f"),
   a brace ("{", "}"), a member "key": value whose value holds no brace
   ("m"), the opening "activities": [ of an array of objects ("acts["), its
   closing ("]"), and a JSON value that holds no brace ("lit").  The commas
   of JSON are part of the symbols they follow. *)

Sym(c) == [c |-> c, key |-> "", val |-> Absent]
Member(key, val) == [c |-> "m", key |-> key, val |-> val]
Lit(v) == [c |-> "lit", key |-> "", val |-> v]

W == Sym("w")
ACT == Sym("Act")
NL == Sym("nl")
FJ == Sym("fj")
F == Sym("f")
LB == Sym("{")
RB == Sym("}")
ACTS == Sym("acts[")
RSQ == Sym("]")

IsWhite(x) == x.c = "nl"
IsBrace(x) == x.c \in {"{", "}"}
IsFence(x) == x.c \in {"f", "fj"}

\* a JSON string with at least one character
IsNonEmptyString(v) == (v.k = "str" /\ v.s # "") \/ v.k \in {"numstr", "date"}

\* the least index >= from whose symbol satisfies the test, or 0
RECURSIVE FirstBrace(_, _)
FirstBrace(text, from) ==
    IF from > Len(text) THEN 0
    ELSE IF IsBrace(text[from]) THEN from
    ELSE FirstBrace(text, from + 1)

RECURSIVE FirstFence(_, _)
FirstFence(text, from) ==
    IF from > Len(text) THEN 0
    ELSE IF IsFence(text[from]) THEN from
    ELSE FirstFence(text, from + 1)

RECURSIVE FirstNonWhite(_, _)
FirstNonWhite(text, from) ==
    IF from > Len(text) THEN 0
    ELSE IF ~IsWhite(text[from]) THEN from
    ELSE FirstNonWhite(text, from + 1)

RECURSIVE FirstOfClass(_, _, _)
FirstOfClass(text, from, c) ==
    IF from > Len(text) THEN 0
    ELSE IF text[from].c = c THEN from
    ELSE FirstOfClass(text, from + 1, c)

RECURSIVE LastOfClass(_, _, _)
LastOfClass(text, from, c) ==
    IF from < 1 THEN 0
    ELSE IF text[from].c = c THEN from
    ELSE LastOfClass(text, from - 1, c)

\* content.split('\n')
RECURSIVE SplitFrom(_, _, _)
SplitFrom(text, i, line) ==
    IF i > Len(text) THEN <<line>>
    ELSE IF text[i].c = "nl" THEN <<line>> \o SplitFrom(text, i + 1, <<>>)
    ELSE SplitFrom(text, i + 1, Append(line, text[i]))

SplitLines(text) == SplitFrom(text, 1, <<>>)

-----------------------------------------------------------------------------
(* JSON.parse on a text: [ok, value]; ok = FALSE is the SyntaxError. *)

ParseFail == [ok |-> FALSE, value |-> ParsedNull, next |-> 0]
ParseOk(v) == [ok |-> TRUE, value |-> v, next |-> 0]

\* one object of the activities array, from the symbol after its "{"
RECURSIVE ParseAct(_, _, _)
ParseAct(s, i, act) ==
    IF i > Len(s) THEN [ok |-> FALSE, act |-> act, next |-> 0]
    ELSE IF s[i].c = "}" THEN [ok |-> TRUE, act |-> act, next |-> i + 1]
    ELSE IF s[i].c = "m"
         THEN ParseAct(s, i + 1,
                       IF s[i].key \in ActFields THEN With(act, s[i].key, s[i].val) ELSE act)
    ELSE [ok |-> FALSE, act |-> act, next |-> 0]

\* the elements of the activities array, from the symbol after "activities": [
RECURSIVE ParseItems(_, _, _)
ParseItems(s, i, items) ==
    IF i > Len(s) THEN [ok |-> FALSE, items |-> items, next |-> 0]
    ELSE IF s[i].c = "]" THEN [ok |-> TRUE, items |-> items, next |-> i + 1]
    ELSE IF s[i].c = "{"
         THEN LET a == ParseAct(s, i + 1, EmptyAct)
              IN IF a.ok THEN ParseItems(s, a.next, Append(items, a.act))
                 ELSE [ok |-> FALSE, items |-> items, next |-> 0]
    ELSE [ok |-> FALSE, items |-> items, next |-> 0]

\* the members of the top-level object, from the symbol after its "{"
RECURSIVE ParseMembers(_, _, _)
ParseMembers(s, i, obj) ==
    IF i > Len(s) THEN ParseFail
    ELSE IF s[i].c = "}" THEN (IF i = Len(s) THEN ParseOk(obj) ELSE ParseFail)
    ELSE IF s[i].c = "m"
         THEN ParseMembers(s, i + 1,
                  CASE s[i].key = "activities" ->
                           [obj EXCEPT !.activities = s[i].val, !.items = <<>>]
                    [] s[i].key = "schedule" -> [obj EXCEPT !.schedule = s[i].val]
                    [] s[i].key = "summary" -> [obj EXCEPT !.summary = s[i].val]
                    [] OTHER -> obj)
    ELSE IF s[i].c = "acts["
         THEN LET r == ParseItems(s, i + 1, <<>>)
              IN IF r.ok
                 THEN ParseMembers(s, r.next,
                          [obj EXCEPT !.activities = Arr(<<>>), !.items = r.items])
                 ELSE ParseFail
    ELSE ParseFail

JSONParse(text) ==
    LET s == SelectSeq(text, LAMBDA x : ~IsWhite(x))
    IN IF Len(s) = 1 /\ s[1].c = "lit" THEN ParseOk(ParsedLit(s[1].val))
       ELSE IF Len(s) >= 2 /\ s[1].c = "{"
            THEN ParseMembers(s, 2, ParsedObj(Absent, <<>>, Absent, Absent))
       ELSE ParseFail

-----------------------------------------------------------------------------
(* The regular expressions of parseAIScheduleResponse *)

NoMatch == [found |-> FALSE, body |-> <<>>]
Match(body) == [found |-> TRUE, body |-> body]

\* content.match(/```json\s*([\s\S]*?)\s*```/i): group 1
JsonCodeBlockMatch(text) ==
    LET i == FirstOfClass(text, 1, "fj")
        j == IF i = 0 THEN 0 ELSE FirstFence(text, i + 1)
    IN IF j = 0 THEN NoMatch ELSE Match(SubSeq(text, i + 1, j - 1))

\* the least q >= from with "}" at q, then white space, then a fence
RECURSIVE FindClose(_, _)
FindClose(text, q) ==
    IF q > Len(text) THEN 0
    ELSE IF text[q].c = "}"
            /\ LET n == FirstNonWhite(text, q + 1) IN n > 0 /\ IsFence(text[n])
         THEN q
    ELSE FindClose(text, q + 1)

\* content.match(/```\s*(\{[\s\S]*?\})\s*```/): group 1
RECURSIVE JsonBlockFrom(_, _)
JsonBlockFrom(text, i) ==
    IF i > Len(text) THEN NoMatch
    ELSE LET p == IF text[i].c = "f" THEN FirstNonWhite(text, i + 1) ELSE 0
             q == IF p > 0 /\ text[p].c = "{" THEN FindClose(text, p + 1) ELSE 0
         IN IF q > 0 THEN Match(SubSeq(text, p, q)) ELSE JsonBlockFrom(text, i + 1)

JsonBlockMatch(text) == JsonBlockFrom(text, 1)

\* /\{[^{}]*(?:\{[^{}]*\}[^{}]*)*\}/ tried at i, where text[i] is "{": the
\* index of the closing brace, or 0.  j is the brace after the last one used.
RECURSIVE BraceGroupEnd(_, _)
BraceGroupEnd(text, from) ==
    LET j == FirstBrace(text, from)
    IN IF j = 0 THEN 0
       ELSE IF text[j].c = "}" THEN j
       ELSE LET k == FirstBrace(text, j + 1)
            IN IF k = 0 \/ text[k].c = "{" THEN 0
               ELSE BraceGroupEnd(text, k + 1)

\* content.match(/.../g): the matches, left to right, not overlapping
RECURSIVE AllJsonMatchesFrom(_, _)
AllJsonMatchesFrom(text, i) ==
    IF i > Len(text) THEN <<>>
    ELSE LET e == IF text[i].c = "{" THEN BraceGroupEnd(text, i + 1) ELSE 0
         IN IF e > 0 THEN <<SubSeq(text, i, e)>> \o AllJsonMatchesFrom(text, e + 1)
            ELSE AllJsonMatchesFrom(text, i + 1)

AllJsonMatches(text) == AllJsonMatchesFrom(text, 1)

\* x placed into a list sorted by length descending, after the entries as long
RECURSIVE InsertByLength(_, _)
InsertByLength(sorted, x) ==
    IF sorted = <<>> THEN <<x>>
    ELSE IF Len(Head(sorted)) >= Len(x) THEN <<Head(sorted)>> \o InsertByLength(Tail(sorted), x)
    ELSE <<x>> \o sorted

\* allJsonMatches.sort((a, b) => b.length - a.length), a stable sort
RECURSIVE SortByLengthFrom(_, _, _)
SortByLengthFrom(ms, i, sorted) ==
    IF i > Len(ms) THEN sorted
    ELSE SortByLengthFrom(ms, i + 1, InsertByLength(sorted, ms[i]))

SortedMatches(text) == SortByLengthFrom(AllJsonMatches(text), 1, <<>>)

\* the test on a candidate: parsed.activities || parsed.schedule
CandidateAccepted(value) ==
    value.k = "obj" /\ (Truthy(value.activities) \/ Truthy(value.schedule))

\* for (const jsonCandidate of sortedMatches): the first candidate accepted
RECURSIVE FirstCandidate(_, _)
FirstCandidate(cands, i) ==
    IF i > Len(cands) THEN ParseFail
    ELSE LET r == JSONParse(cands[i])
         IN IF r.ok /\ CandidateAccepted(r.value) THEN r
            ELSE FirstCandidate(cands, i + 1)

\* content.match(/"activityId":\s*"[^"]+"/g) is not empty
HasActivityPattern(text) ==
    \E i \in 1..Len(text) :
        text[i].c = "m" /\ text[i].key = "activityId" /\ IsNonEmptyString(text[i].val)

-----------------------------------------------------------------------------
(* reconstructFromPatterns *)

\* the value of the first member of the line with one of the keys and a
\* value the pattern accepts, or Absent
RECURSIVE FirstMemberValue(_, _, _, _)
FirstMemberValue(line, i, keys, digits) ==
    IF i > Len(line) THEN Absent
    ELSE IF line[i].c = "m" /\ line[i].key \in keys
            /\ (IF digits THEN line[i].val.k = "num" /\ line[i].val.n >= 0
                ELSE IsNonEmptyString(line[i].val))
         THEN line[i].val
    ELSE FirstMemberValue(line, i + 1, keys, digits)

LineHasKey(line, keys) == \E i \in 1..Len(line) : line[i].c = "m" /\ line[i].key \in keys

\* Object.keys(currentActivity).length > 0
HasKeys(act) == \E f \in ActFields : act[f] # Absent

\* one turn of the loop over the lines: st = [activities, current]
ReconstructLine(st, line) ==
    LET pushed == IF LineHasKey(line, {"activityId"}) /\ HasKeys(st.current)
                  THEN Append(st.activities, st.current) ELSE st.activities
        c0 == IF LineHasKey(line, {"activityId"}) THEN EmptyAct ELSE st.current
        idMatch == FirstMemberValue(line, 1, {"activityId"}, FALSE)
        c1 == IF LineHasKey(line, {"activityId"}) /\ idMatch # Absent
              THEN With(c0, "activityId", idMatch) ELSE c0
        nameMatch == FirstMemberValue(line, 1, {"name", "activityName"}, FALSE)
        c2 == IF LineHasKey(line, {"name", "activityName"}) /\ nameMatch # Absent
              THEN With(c1, "name", nameMatch) ELSE c1
        durationMatch == FirstMemberValue(line, 1, {"originalDuration"}, TRUE)
        c3 == IF LineHasKey(line, {"originalDuration"}) /\ durationMatch # Absent
              THEN With(c2, "originalDuration", durationMatch) ELSE c2
    IN [activities |-> pushed, current |-> c3]

RECURSIVE ReconstructFrom(_, _, _)
ReconstructFrom(lines, i, st) ==
    IF i > Len(lines)
    THEN (IF HasKeys(st.current) THEN Append(st.activities, st.current) ELSE st.activities)
    ELSE ReconstructFrom(lines, i + 1, ReconstructLine(st, lines[i]))

reconstructFromPatterns(text) ==
    LET activities == ReconstructFrom(SplitLines(text), 1,
                                      [activities |-> <<>>, current |-> EmptyAct])
    IN ParsedObj(Arr(<<>>), activities, Absent,
                 Str("Reconstructed " \o ToString(Len(activities))
                     \o " activities from malformed AI response"))

-----------------------------------------------------------------------------
(* parseAIScheduleResponse: the value returned and the strategy that
   returned it (1 direct, 2 ```json block, 3 ``` block, 4 brace candidates,
   5 reconstruction, 0 none: null) *)

Recovered(value, strategy) == [value |-> value, strategy |-> strategy]

parseAIScheduleResponse(text) ==
    LET direct == JSONParse(text)
        m2 == JsonCodeBlockMatch(text)
        p2 == IF m2.found THEN JSONParse(m2.body) ELSE ParseFail
        m3 == JsonBlockMatch(text)
        p3 == IF m3.found THEN JSONParse(m3.body) ELSE ParseFail
        p4 == FirstCandidate(SortedMatches(text), 1)
    IN IF direct.ok THEN Recovered(direct.value, 1)
       ELSE IF p2.ok THEN Recovered(p2.value, 2)
       ELSE IF p3.ok THEN Recovered(p3.value, 3)
       ELSE IF p4.ok THEN Recovered(p4.value, 4)
       ELSE IF HasActivityPattern(text) THEN Recovered(reconstructFromPatterns(text), 5)
       ELSE Recovered(ParsedNull, 0)

-----------------------------------------------------------------------------
(* extractFallbackScheduleData *)

\* activityLines.slice(0, 20)
SliceLimit == 20

\* line.includes('activityId') || line.includes('Activity') ||
\* line.includes('duration') || line.includes('predecessors')
IsActivityLine(line) ==
    \E i \in 1..Len(line) :
        \/ line[i].c = "Act"
        \/ line[i].c = "m" /\ line[i].key \in {"activityId", "duration", "predecessors"}

\* the activity made for the line of the given index
FallbackActivity(index) ==
    [EmptyAct EXCEPT
        !.activityId = Str(PositionalId(index)),
        !.name = Str("Activity " \o ToString(index + 1)),
        !.originalDuration = Num(5),
        !.remainingDuration = Num(5),
        !.predecessors = IF index > 0 THEN Arr(<<PositionalId(index - 1)>>) ELSE Arr(<<>>),
        !.status = Str("NotStarted"),
        !.percentComplete = Num(0),
        !.totalFloat = Num(0),
        !.freeFloat = Num(0),
        !.isCritical = Bool(index = 0)]

extractFallbackScheduleData(text) ==
    LET activityLines == SelectSeq(SplitLines(text), IsActivityLine)
        n == IF Len(activityLines) > SliceLimit THEN SliceLimit ELSE Len(activityLines)
    IN IF n > 0
       THEN ParsedObj(Arr(<<>>), [i \in 1..n |-> FallbackActivity(i - 1)], Absent,
                      Str("Generated from fallback parsing"))
       ELSE ParsedNull

-----------------------------------------------------------------------------
(* The fixed schedule of the catch block around the remote call *)

\* request.startDate || new Date(): the day the demo schedule starts
DemoStart(req) == Or(req.startDate, DateStr(Today))

\* new Date(new Date(request.startDate || new Date()).getTime() + n days)
\*   .toISOString().split('T')[0]
DemoDate(req, n) == DateStr(DayOf(DemoStart(req)) + n)

\* status: "NotStarted" in variant 1, "Not Started" in variant 2
DemoStatus(v) == IF v = 1 THEN Str("NotStarted") ELSE Str("Not Started")

DemoActivity(activityId, activityName, duration, predecessors, successors,
             startDate, finishDate, wbs, es, ef, v) ==
    [EmptyAct EXCEPT
        !.activityId = Str(activityId),
        !.activityName = Str(activityName),
        !.duration = Num(duration),
        !.predecessors = Arr(predecessors),
        !.successors = Arr(successors),
        !.status = DemoStatus(v),
        !.percentComplete = Num(0),
        !.startDate = startDate,
        !.finishDate = finishDate,
        !.wbs = Str(wbs),
        !.earlyStart = Num(es),
        !.earlyFinish = Num(ef),
        !.totalFloat = Num(0),
        !.freeFloat = Num(0),
        !.isCritical = Bool(TRUE)]

\* demoActivities with Foundation Work given the duration of Site Preparation
demoActivitiesShort(req, v) ==
    << DemoActivity("A001", "Site Preparation", 5, <<>>, <<"A002">>,
                    DemoStart(req), DemoDate(req, 5), "1.1", 0, 5, v),
       DemoActivity("A002", "Foundation Work", 5, <<"A001">>, <<"A003">>,
                    DemoDate(req, 5), DemoDate(req, 10), "1.2", 5, 10, v),
       DemoActivity("A003", "Structure Assembly", 15, <<"A002">>, <<>>,
                    DemoDate(req, 10), DemoDate(req, 25), "1.3", 10, 25, v) >>

demoActivities(req, v) ==
    << DemoActivity("A001", "Site Preparation", 5, <<>>, <<"A002">>,
                    DemoStart(req), DemoDate(req, 5), "1.1", 0, 5, v),
       DemoActivity("A002", "Foundation Work", 10, <<"A001">>, <<"A003">>,
                    DemoDate(req, 5), DemoDate(req, 15), "1.2", 5, 15, v),
       DemoActivity("A003", "Structure Assembly", 15, <<"A002">>, <<>>,
                    DemoDate(req, 15), DemoDate(req, 30), "1.3", 15, 30, v) >>

DemoSummary == Str("Demo schedule generated (AI service temporarily unavailable)")

\* toISOString throws a RangeError when request.startDate is no date
DemoThrows(req) == ~ValidDate(DemoStart(req))

-----------------------------------------------------------------------------
(* generateScheduleWithAI after the race has settled.  What a handler did:
   the outcome, the response returned, the text recovered from, and the
   value handed to the normalisation with the strategy that produced it
   (1-5 as parseAIScheduleResponse, 6 extractFallbackScheduleData,
    7 JSON.parse of variant 2, 8 the default of variant 2, 0 nothing). *)

Handled(o, r, text, first, rec) ==
    [outcome |-> o, result |-> r, content |-> text, recovered |-> first, parsed |-> rec]

NotRecovered == Recovered(ParsedNull, 0)

\* the outer catch: throw new Error('Failed to generate schedule')
Failed(text, first, rec) == Handled("thrown", NoResponse, text, first, rec)

\* catch (apiError): the demo schedule, unless building it throws
HandleApiError(req, v) ==
    IF DemoThrows(req) THEN Failed(<<>>, NotRecovered, NotRecovered)
    ELSE Handled("fallback",
                 Response(demoActivities(req, v), DemoSummary,
                          <<Str("A001"), Str("A002"), Str("A003")>>),
                 <<>>, NotRecovered, NotRecovered)

\* response.choices[0].message.content throws a TypeError
ContentThrows(resp) == resp.shape \in {"noChoices", "emptyChoices", "noMessage"}

\* response.choices[0].message.content || "{}"
ContentOf(resp) ==
    IF resp.shape = "nullContent" \/ resp.text = <<>> THEN <<LB, RB>> ELSE resp.text

\* the summary of the empty result of variant 1
ParsingFailedSummary(text) ==
    Str("AI response parsing failed. Response length: " \o ToString(Len(text)) \o " chars.")

\* !result || !result.activities || result.activities.length === 0
NoActivities(value) ==
    \/ value.k = "lit"
    \/ ~Truthy(value.activities)
    \/ IsArray(value.activities) /\ Len(value.items) = 0

\* return processScheduleResult(...) inside the outer try
Processed(first, rec, req, v, text) ==
    LET r == processScheduleResult(rec.value, req, v)
    IN IF r.threw THEN Failed(text, first, rec)
       ELSE Handled(IF Len(r.value.activities) > 0 THEN "success" ELSE "empty",
                    r.value, text, first, rec)

\* variant 1, lines 375-406
HandleResponseV1(resp, req) ==
    IF ContentThrows(resp) THEN Failed(<<>>, NotRecovered, NotRecovered)
    ELSE LET text == ContentOf(resp)
             rec == parseAIScheduleResponse(text)
             fallbackResult == extractFallbackScheduleData(text)
         IN IF NoActivities(rec.value)
            THEN IF ~NoActivities(fallbackResult)
                 THEN Processed(rec, Recovered(fallbackResult, 6), req, 1, text)
                 ELSE Handled("empty",
                              Response(<<>>, ParsingFailedSummary(text), <<>>),
                              text, rec, NotRecovered)
            ELSE Processed(rec, rec, req, 1, text)

\* content.match(/\{[\s\S]*\}/): from the first "{" to the last "}"
GreedyJsonMatch(text) ==
    LET i == FirstOfClass(text, 1, "{")
        j == LastOfClass(text, Len(text), "}")
    IN IF i > 0 /\ j > i THEN Match(SubSeq(text, i, j)) ELSE NoMatch

\* variant 2, lines 1178-1275
HandleResponseV2(resp, req) ==
    IF ContentThrows(resp) THEN Failed(<<>>, NotRecovered, NotRecovered)
    ELSE LET text == ContentOf(resp)
             m == GreedyJsonMatch(text)
             p == JSONParse(IF m.found THEN m.body ELSE text)
             rec == IF p.ok THEN Recovered(p.value, 7)
                    ELSE Recovered(ParsedObj(Arr(<<>>), <<>>, Absent,
                                             Str("Failed to parse AI response")), 8)
         IN IF rec.value.k = "lit" /\ rec.value.lit = Null
            THEN Failed(text, NotRecovered, rec)       \* result.activities of null
            ELSE Processed(NotRecovered, rec, req, 2, text)

HandleResponse(resp, req, v) ==
    IF v = 1 THEN HandleResponseV1(resp, req) ELSE HandleResponseV2(resp, req)

-----------------------------------------------------------------------------
(* The text of JSON values: JSON.stringify, compact or one symbol per line *)

FieldOrder == <<"activityId", "name", "activityName", "originalDuration",
                "duration", "remainingDuration", "earlyStart", "startDate",
                "finishDate", "earlyFinish", "predecessors", "successors",
                "status", "percentComplete", "totalFloat", "freeFloat",
                "isCritical", "wbs">>

Line(x, pretty) == IF pretty THEN <<x, NL>> ELSE <<x>>

RECURSIVE MembersText(_, _, _)
MembersText(act, i, pretty) ==
    IF i > Len(FieldOrder) THEN <<>>
    ELSE (IF act[FieldOrder[i]] # Absent
          THEN Line(Member(FieldOrder[i], act[FieldOrder[i]]), pretty) ELSE <<>>)
         \o MembersText(act, i + 1, pretty)

ActText(act, pretty) == Line(LB, pretty) \o MembersText(act, 1, pretty) \o Line(RB, pretty)

RECURSIVE ItemsText(_, _, _)
ItemsText(items, i, pretty) ==
    IF i > Len(items) THEN <<>>
    ELSE ActText(items[i], pretty) \o ItemsText(items, i + 1, pretty)

\* { "activities": [ ... ] }
ScheduleText(items, pretty) ==
    Line(LB, pretty) \o Line(ACTS, pretty) \o ItemsText(items, 1, pretty)
    \o Line(RSQ, pretty) \o <<RB>>

-----------------------------------------------------------------------------
(* Requests and remote responses *)

RequestTypes == {"create", "update", "lookahead", "analyze"}

\* request.startDate comes from the body of the HTTP request unchecked
StartDates == {Absent, DateStr(10), Str("TBD")}

Requests == [type : RequestTypes, startDate : StartDates, nFiles : 0..MaxFiles]

TextResponse(text) == [shape |-> "text", text |-> text]
ShapeResponse(shape) == [shape |-> shape, text |-> <<>>]

\* raw activities as a model sends them
RawA1 == [EmptyAct EXCEPT !.activityId = Str("A001"), !.name = Str("Dig"),
                          !.originalDuration = Num(3), !.predecessors = Arr(<<>>),
                          !.totalFloat = Num(0), !.isCritical = Bool(TRUE)]
RawA2 == [EmptyAct EXCEPT !.activityId = Str("A002"), !.name = Str("Pour"),
                          !.originalDuration = Num(4), !.predecessors = Arr(<<"A001">>),
                          !.totalFloat = Num(5), !.isCritical = Bool(TRUE)]
RawDangling == [EmptyAct EXCEPT !.activityId = Str("A001"), !.name = Str("Cure"),
                                !.predecessors = Arr(<<"A999">>),
                                !.totalFloat = Num(0), !.isCritical = Bool(FALSE)]
RawNoId == [EmptyAct EXCEPT !.name = Str("Strip"), !.duration = NumStr(5),
                            !.earlyStart = DateStr(20), !.status = Str("InProgress")]
RawBadDate == [EmptyAct EXCEPT !.activityId = Str("A003"), !.earlyStart = Str("TBD")]

\* the responses of the specification of the whole request
PipelineTexts ==
    { ScheduleText(<<RawA1, RawA2>>, FALSE),
      ScheduleText(<<RawA1, RawNoId>>, TRUE),
      ScheduleText(<<RawA2, RawDangling>>, FALSE),
      ScheduleText(<<RawBadDate>>, FALSE),
      <<W, NL, FJ, NL>> \o ScheduleText(<<RawA1>>, FALSE) \o <<NL, F, NL, W>>,
      <<LB, Member("activities", Str("none")), RB>>,
      <<LB, Member("activities", Arr(<<>>)), RB>>,
      <<Lit(Null)>>,
      <<W, W, NL, W>>,
      <<W, ACT, W>>,
      <<>> }

PipelineResponses ==
    {ShapeResponse(sh) : sh \in {"noChoices", "emptyChoices", "noMessage", "nullContent"}}
    \cup {TextResponse(t) : t \in PipelineTexts}

-----------------------------------------------------------------------------
(* The request as a state machine *)

NoRenorm == [done |-> FALSE, threw |-> FALSE, activities |-> <<>>]

Init ==
    /\ variant \in {1, 2}
    /\ request \in Requests
    /\ pc = "reading"
    /\ filesRead = <<>>
    /\ calls = 0
    /\ api = "idle"
    /\ timer = "unarmed"
    /\ winner = "none"
    /\ content = <<>>
    /\ recovered = NotRecovered
    /\ parsed = NotRecovered
    /\ outcome = "none"
    /\ result = NoResponse
    /\ renorm = NoRenorm
    /\ TriageIdle
    /\ StoreIdle
    /\ PageIdle

\* one turn of the loop over request.uploadedFiles: the read, or its catch
ReadFile ==
    /\ pc = "reading"
    /\ Len(filesRead) < request.nFiles
    /\ \E ok \in BOOLEAN : filesRead' = Append(filesRead, ok)
    /\ UNCHANGED <<triageVars, storeVars, pageVars, variant, request, pc, calls, api, timer, winner, content,
                   recovered, parsed, outcome, result, renorm>>

\* IssueCall with the call issued a second time
IssueCallTwice ==
    /\ pc = "reading"
    /\ Len(filesRead) = request.nFiles
    /\ pc' = "awaiting"
    /\ calls' = calls + 2
    /\ api' = "pending"
    /\ timer' = "armed"
    /\ UNCHANGED <<triageVars, storeVars, pageVars, variant, request, filesRead, winner, content, recovered, parsed,
                   outcome, result, renorm>>

\* IssueCall with the reads started and not awaited
IssueCallEarly ==
    /\ pc = "reading"
    /\ pc' = "awaiting"
    /\ calls' = calls + 1
    /\ api' = "pending"
    /\ timer' = "armed"
    /\ UNCHANGED <<triageVars, storeVars, pageVars, variant, request, filesRead, winner, content, recovered, parsed,
                   outcome, result, renorm>>

\* the prompt is built, poe.chat.completions.create is called and raced
\* against the setTimeout
IssueCall ==
    /\ pc = "reading"
    /\ Len(filesRead) = request.nFiles
    /\ pc' = "awaiting"
    /\ calls' = calls + 1
    /\ api' = "pending"
    /\ timer' = "armed"
    /\ UNCHANGED <<triageVars, storeVars, pageVars, variant, request, filesRead, winner, content, recovered, parsed,
                   outcome, result, renorm>>

Finish(h) ==
    /\ pc' = "done"
    /\ outcome' = h.outcome
    /\ result' = h.result
    /\ content' = h.content
    /\ recovered' = h.recovered
    /\ parsed' = h.parsed

\* apiCall fulfils first: the rest of the function runs to its return or throw
ResponseArrives(responses) ==
    /\ pc = "awaiting"
    /\ api = "pending"
    /\ \E resp \in responses : Finish(HandleResponse(resp, request, variant))
    /\ api' = "resolved"
    /\ winner' = "response"
    /\ UNCHANGED <<triageVars, storeVars, pageVars, variant, request, filesRead, calls, timer, renorm>>

\* apiCall rejects first: catch (apiError)
CallRejects ==
    /\ pc = "awaiting"
    /\ api = "pending"
    /\ Finish(HandleApiError(request, variant))
    /\ api' = "rejected"
    /\ winner' = "error"
    /\ UNCHANGED <<triageVars, storeVars, pageVars, variant, request, filesRead, calls, timer, renorm>>

\* the setTimeout callback rejects timeoutPromise first: catch (apiError)
TimeoutFires ==
    /\ pc = "awaiting"
    /\ timer = "armed"
    /\ Finish(HandleApiError(request, variant))
    /\ timer' = "fired"
    /\ winner' = "timeout"
    /\ UNCHANGED <<triageVars, storeVars, pageVars, variant, request, filesRead, calls, api, renorm>>

\* LateSettle with the late response handled as if it had won the race
LateSettleHandled ==
    /\ pc = "done"
    /\ api = "pending"
    /\ \E resp \in PipelineResponses : Finish(HandleResponse(resp, request, variant))
    /\ api' = "resolved"
    /\ UNCHANGED <<triageVars, storeVars, pageVars, variant, request, filesRead, calls, timer, winner, renorm>>

\* apiCall settles after the race was decided by the timeout
LateSettle ==
    /\ pc = "done"
    /\ api = "pending"
    /\ \E how \in {"resolved", "rejected"} : api' = how
    /\ UNCHANGED <<triageVars, storeVars, pageVars, variant, request, pc, filesRead, calls, timer, winner, content,
                   recovered, parsed, outcome, result, renorm>>

\* the setTimeout, never cleared, fires after the race was decided
LateTimeout ==
    /\ pc = "done"
    /\ timer = "armed"
    /\ timer' = "fired"
    /\ UNCHANGED <<triageVars, storeVars, pageVars, variant, request, pc, filesRead, calls, api, winner, content,
                   recovered, parsed, outcome, result, renorm>>

\* the activities returned are given to the normalisation once more
Renormalize ==
    /\ pc = "done"
    /\ outcome = "success"
    /\ ~renorm.done
    /\ LET r == processScheduleResult(
                    ParsedObj(Arr(<<>>), result.activities, Absent, result.summary),
                    request, variant)
       IN renorm' = [done |-> TRUE, threw |-> r.threw, activities |-> r.value.activities]
    /\ UNCHANGED <<triageVars, storeVars, pageVars, variant, request, pc, filesRead, calls, api, timer, winner, content,
                   recovered, parsed, outcome, result>>

Next ==
    \/ ReadFile
    \/ IssueCall
    \/ ResponseArrives(PipelineResponses)
    \/ CallRejects
    \/ TimeoutFires
    \/ LateSettle
    \/ LateTimeout
    \/ Renormalize

Spec == Init /\ [][Next]_vars

-----------------------------------------------------------------------------
(* The recovery alone: the request waits for the response, whose text is
   drawn from texts built as  before, block, after. *)

InitAwaiting ==
    /\ variant \in {1, 2}
    /\ request \in {r \in Requests : r.type = "create" /\ r.nFiles = 0}
    /\ pc = "awaiting"
    /\ filesRead = <<>>
    /\ calls = 1
    /\ api = "pending"
    /\ timer = "armed"
    /\ winner = "none"
    /\ content = <<>>
    /\ recovered = NotRecovered
    /\ parsed = NotRecovered
    /\ outcome = "none"
    /\ result = NoResponse
    /\ renorm = NoRenorm
    /\ TriageIdle
    /\ StoreIdle
    /\ PageIdle

\* the text cut after its first n symbols (max_tokens reached)
Truncated(text, n) == SubSeq(text, 1, n)

RecoverLists == {<<RawA1>>, <<RawA1, RawA2>>}

\* two activities that name no predecessors
RawSite == [EmptyAct EXCEPT !.activityId = Str("A001"), !.name = Str("Site"),
                            !.originalDuration = Num(2)]
RawSlab == [EmptyAct EXCEPT !.activityId = Str("A002"), !.name = Str("Slab"),
                            !.originalDuration = Num(6)]

RecoverBodies ==
    {ScheduleText(items, TRUE) : items \in RecoverLists}
    \cup { ScheduleText(<<RawA1>>, FALSE),
           Truncated(ScheduleText(<<RawA1, RawA2>>, TRUE), 24),
           Truncated(ScheduleText(<<RawSite, RawSlab>>, TRUE), 22),
           <<Lit(Arr(<<>>))>>,
           <<LB, Member("x", Num(1)), RB>>,
           <<LB, Member("schedule", Num(1)), RB>>,
           <<W>>,
           <<>> }

\* text before the block that holds no fence
PlainBefores == {<<>>, <<W, NL>>, <<ACT, W, NL>>, <<LB, W, RB, NL>>, <<W, LB, NL>>}

Befores == PlainBefores \cup {<<FJ, Lit(Arr(<<>>)), F, NL>>}

Afters == {<<>>, <<NL, W>>, <<NL, LB, W, RB>>, <<NL, W, RB>>}

BlockKinds == {"bare", "json", "generic"}

Wrap(before, kind, body, after) ==
    before
    \o (CASE kind = "json" -> <<FJ, NL>> \o body \o <<NL, F>>
          [] kind = "generic" -> <<F, NL>> \o body \o <<NL, F>>
          [] OTHER -> body)
    \o after

RecoverTexts ==
    {Wrap(b, k, body, a) : b \in Befores, k \in BlockKinds, body \in RecoverBodies,
                           a \in Afters}

RecoverResponses == {TextResponse(t) : t \in RecoverTexts}

NextRecover ==
    \/ ResponseArrives(RecoverResponses)
    \/ LateTimeout
    \/ Renormalize

SpecRecover == InitAwaiting /\ [][NextRecover]_vars

-----------------------------------------------------------------------------
(* The normalisation alone: the response is the text of a schedule whose
   activities are drawn from a pool of raw activities. *)

RawEmptyId ==
    [EmptyAct EXCEPT !.activityId = Str(""), !.activityName = Str("Frame"),
                     !.originalDuration = Num(0), !.duration = Num(7),
                     !.startDate = DateStr(30), !.predecessors = Str("A001"),
                     !.status = Str("Done"), !.percentComplete = Num(150),
                     !.totalFloat = Str("x"), !.isCritical = Str("yes"),
                     !.wbs = Str("2.1")]
RawA000 ==
    [EmptyAct EXCEPT !.activityId = Str("A000"), !.originalDuration = Str("five"),
                     !.successors = Arr(<<"A001">>), !.status = Str("In Progress"),
                     !.percentComplete = Num(0 - 5), !.totalFloat = Num(0),
                     !.freeFloat = Num(2), !.isCritical = Bool(FALSE)]
RawNegative ==
    [EmptyAct EXCEPT !.originalDuration = Num(0 - 3), !.earlyStart = Num(5),
                     !.status = Str("Completed"), !.percentComplete = NumStr(50),
                     !.predecessors = Arr(<<"A000", "A001">>)]

\* an explicit finish date later than the start date plus the duration
RawFinish ==
    [EmptyAct EXCEPT !.activityId = Str("A004"), !.originalDuration = Num(2),
                     !.startDate = DateStr(30), !.finishDate = DateStr(40),
                     !.earlyFinish = DateStr(40), !.status = Str("Completed"),
                     !.percentComplete = Num(100)]

NormPool == {RawA1, RawA2, RawDangling, RawNoId, RawBadDate, RawEmptyId, RawA000,
             RawNegative, RawFinish}

NormLists == UNION {[1..n -> NormPool] : n \in 0..MaxActs}

NormResponses == {TextResponse(ScheduleText(items, FALSE)) : items \in NormLists}

NextNorm ==
    \/ ResponseArrives(NormResponses)
    \/ LateTimeout
    \/ Renormalize

SpecNorm == InitAwaiting /\ [][NextNorm]_vars

-----------------------------------------------------------------------------
(* Document triage (src/unnamed/part_003).  A document text is a sequence of
   words separated by single spaces; a word is its characters s and their
   number n. *)

MaxWords == 3

\* no generation request is running; the position is that of a triage function
ScheduleIdle(position) ==
    /\ pc = position
    /\ variant = 1
    /\ request = [type |-> "create", startDate |-> Absent, nFiles |-> 0]
    /\ filesRead = <<>>
    /\ calls = 0
    /\ api = "idle"
    /\ timer = "unarmed"
    /\ winner = "none"
    /\ content = <<>>
    /\ recovered = NotRecovered
    /\ parsed = NotRecovered
    /\ outcome = "none"
    /\ result = NoResponse
    /\ renorm = NoRenorm

Word(s, n) == [s |-> s, n |-> n]

\* a run of n characters that holds no space and no keyword
Filler(n) == Word("x", n)

Vocabulary ==
    {Word("schedule", 8), Word("Milestone", 9), Word("completion", 10),
     Word("substantial", 11), Word("installation", 12), Word("weather", 7),
     Word("update", 6), Word("scope", 5), Word("lorem", 5)}

\* text.toLowerCase(), word by word
Lower(s) == IF s = "Milestone" THEN "milestone" ELSE s

\* the keywords of CATEGORY_KEYWORDS without a space that are substrings of a
\* lower-case word of the vocabulary
KeywordsIn(s) ==
    CASE s = "update" -> {"date"}
      [] s \in {"x", "lorem", "substantial"} -> {}
      [] OTHER -> {s}

\* CATEGORY_KEYWORDS, in the order of Object.entries; a keyword is the
\* sequence of its words
CATEGORY_KEYWORDS ==
    << [category |-> "project_details",
        keywords |-> {<<"project", "name">>, <<"project", "description">>, <<"scope">>,
                      <<"overview">>, <<"summary">>, <<"client">>, <<"contractor">>,
                      <<"owner">>, <<"architect">>, <<"engineer">>}],
       [category |-> "schedule",
        keywords |-> {<<"schedule">>, <<"timeline">>, <<"duration">>, <<"completion">>,
                      <<"milestone">>, <<"phase">>, <<"critical", "path">>, <<"gantt">>,
                      <<"calendar">>, <<"working", "days">>,
                      <<"substantial", "completion">>}],
       [category |-> "specifications",
        keywords |-> {<<"specification">>, <<"technical">>, <<"materials">>,
                      <<"equipment">>, <<"installation">>, <<"quality">>,
                      <<"performance">>, <<"standard">>, <<"code">>, <<"requirement">>}],
       [category |-> "constraints",
        keywords |-> {<<"constraint">>, <<"restriction">>, <<"limitation">>,
                      <<"weather">>, <<"permit">>, <<"access">>, <<"safety">>,
                      <<"environmental">>, <<"noise">>, <<"hours">>, <<"season">>}],
       [category |-> "dates",
        keywords |-> {<<"date">>, <<"deadline">>, <<"completion">>, <<"start">>,
                      <<"finish">>, <<"notice", "to", "proceed">>, <<"ntp">>,
                      <<"substantial", "completion">>, <<"final", "completion">>,
                      <<"milestone">>}],
       [category |-> "scope",
        keywords |-> {<<"work">>, <<"activity">>, <<"task">>, <<"demolition">>,
                      <<"construction">>, <<"installation">>, <<"excavation">>,
                      <<"foundation">>, <<"structure">>, <<"mechanical">>,
                      <<"electrical">>}] >>

\* lowerText.includes(keyword)
Includes(txt, keyword) ==
    IF Len(keyword) = 1
    THEN \E i \in 1..Len(txt) : keyword[1] \in KeywordsIn(Lower(txt[i].s))
    ELSE \E i \in 1..(Len(txt) - Len(keyword) + 1) :
             \A j \in 1..Len(keyword) : Lower(txt[i + j - 1].s) = keyword[j]

\* the score of one category: the number of its keywords the text includes
CategoryScore(txt, c) ==
    Cardinality({k \in CATEGORY_KEYWORDS[c].keywords : Includes(txt, k)})

\* the loop over Object.entries(CATEGORY_KEYWORDS), from category c on
RECURSIVE BestCategoryFrom(_, _, _, _)
BestCategoryFrom(txt, c, maxScore, best) ==
    IF c > Len(CATEGORY_KEYWORDS) THEN best
    ELSE IF CategoryScore(txt, c) > maxScore
         THEN BestCategoryFrom(txt, c + 1, CategoryScore(txt, c),
                               CATEGORY_KEYWORDS[c].category)
    ELSE BestCategoryFrom(txt, c + 1, maxScore, best)

categorizeContent(txt) == BestCategoryFrom(txt, 1, 0, "other")

\* texts of up to MaxWords words of the vocabulary
CategorizeTexts == UNION {[1..n -> Vocabulary] : n \in 0..MaxWords}

InitCategorize ==
    /\ ScheduleIdle("categorizing")
    /\ StoreIdle
    /\ PageIdle
    /\ documentContent = <<>>
    /\ documentSections = <<>>
    /\ sectionContent \in CategorizeTexts
    /\ bestCategory = ""
    /\ analysis = <<>>
    /\ options = <<>>
    /\ contentToProcess = <<>>
    /\ filePaths = <<>>
    /\ storage = <<>>
    /\ analyses = <<>>

Categorize ==
    /\ pc = "categorizing"
    /\ pc' = "categorized"
    /\ bestCategory' = categorizeContent(sectionContent)
    /\ UNCHANGED <<scheduleData, storeVars, pageVars, documentContent,
                   documentSections, sectionContent, analysis, options, contentToProcess, filePaths,
                   storage, analyses>>

NextCategorize == Categorize

SpecCategorize == InitCategorize /\ [][NextCategorize]_vars

-----------------------------------------------------------------------------
(* Sections and analyses.  A document is given by the segments
   splitIntoSections cuts it into (sectionSplits), each a text.  The title
   and keywords of a section and the keyInformation of an analysis, functions
   of the text alone that nothing else reads, are not represented. *)

MaxSegments == 3

Min(a, b) == IF a < b THEN a ELSE b

\* the characters of the words from the i-th on, spaces apart
RECURSIVE WordChars(_, _)
WordChars(txt, i) == IF i > Len(txt) THEN 0 ELSE txt[i].n + WordChars(txt, i + 1)

\* text.length: the words and the single spaces between them
Chars(txt) == IF txt = <<>> THEN 0 ELSE WordChars(txt, 1) + Len(txt) - 1

\* Math.ceil(text.length / 4)
estimateTokens(txt) == (Chars(txt) + 3) \div 4

\* (tokens / 1000000) * 3.0, in millionths of a dollar
estimateCost(tokens) == tokens * 3

\* what one lower-case word of the vocabulary adds to the score: 3 for each
\* match of a high value keyword, 1 for each match of a medium value keyword
WordScore(s) ==
    CASE s \in {"schedule", "milestone", "completion"} -> 3
      [] s = "scope" -> 1
      [] OTHER -> 0

RECURSIVE ScoreFrom(_, _)
ScoreFrom(txt, i) ==
    IF i > Len(txt) THEN 0 ELSE WordScore(Lower(txt[i].s)) + ScoreFrom(txt, i + 1)

\* Math.min(100, score)
calculateRelevanceScore(txt) == Min(100, ScoreFrom(txt, 1))

\* Section with the automatic selection set above a score of 60
SectionSelectedAbove(fileName, segment, index) ==
    [id |-> fileName \o "-section-" \o ToString(index),
     content |-> segment,
     relevanceScore |-> calculateRelevanceScore(segment),
     category |-> categorizeContent(segment),
     tokens |-> estimateTokens(segment),
     isSelected |-> calculateRelevanceScore(segment) > 60]

\* the section pushed for the segment of the given index
Section(fileName, segment, index) ==
    [id |-> fileName \o "-section-" \o ToString(index),
     content |-> segment,
     relevanceScore |-> calculateRelevanceScore(segment),
     category |-> categorizeContent(segment),
     tokens |-> estimateTokens(segment),
     isSelected |-> calculateRelevanceScore(segment) > 20]

\* the words left by trim(): a leading or trailing empty word stands for
\* white space at that end of the text
RECURSIVE Trim(_)
Trim(txt) ==
    IF txt = <<>> THEN <<>>
    ELSE IF Head(txt).n = 0 THEN Trim(Tail(txt))
    ELSE IF txt[Len(txt)].n = 0 THEN Trim(SubSeq(txt, 1, Len(txt) - 1))
    ELSE txt

\* sectionContent.trim().length
TrimChars(txt) == Chars(Trim(txt))

\* sectionSplits.forEach: segments under 100 characters are skipped
RECURSIVE SectionsFrom(_, _, _)
SectionsFrom(sectionSplits, i, fileName) ==
    IF i > Len(sectionSplits) THEN <<>>
    ELSE (IF TrimChars(sectionSplits[i]) < 100 THEN <<>>
          ELSE <<Section(fileName, sectionSplits[i], i - 1)>>)
         \o SectionsFrom(sectionSplits, i + 1, fileName)

\* x placed into a list sorted by relevanceScore descending, after its equals
RECURSIVE InsertByScore(_, _)
InsertByScore(sorted, x) ==
    IF sorted = <<>> THEN <<x>>
    ELSE IF Head(sorted).relevanceScore >= x.relevanceScore
         THEN <<Head(sorted)>> \o InsertByScore(Tail(sorted), x)
    ELSE <<x>> \o sorted

\* sections.sort((a, b) => b.relevanceScore - a.relevanceScore), a stable sort
RECURSIVE SortByScoreFrom(_, _, _)
SortByScoreFrom(sections, i, sorted) ==
    IF i > Len(sections) THEN sorted
    ELSE SortByScoreFrom(sections, i + 1, InsertByScore(sorted, sections[i]))

\* SectionsOf without the final sort: the sections in document order
SectionsInDocumentOrder(sectionSplits, fileName) ==
    SectionsFrom(sectionSplits, 1, fileName)

\* splitIntoSections, from the segments on
SectionsOf(sectionSplits, fileName) ==
    SortByScoreFrom(SectionsFrom(sectionSplits, 1, fileName), 1, <<>>)

\* sections.reduce((sum, s) => sum + s.tokens, 0)
RECURSIVE TokenSum(_, _)
TokenSum(sections, i) ==
    IF i > Len(sections) THEN 0 ELSE sections[i].tokens + TokenSum(sections, i + 1)

\* content.length of a document
RECURSIVE DocChars(_, _)
DocChars(doc, i) == IF i > Len(doc) THEN 0 ELSE Chars(doc[i]) + DocChars(doc, i + 1)

\* a path: the part up to the last '/' and the part after it
Path(dir, name) == [dir |-> dir, name |-> name]

\* filePath.split('/').pop() || filePath
FileName(filePath) ==
    IF filePath.name # "" THEN filePath.name ELSE filePath.dir \o "/"

ProcessingOption(tokens, description) ==
    [tokens |-> tokens, cost |-> estimateCost(tokens), description |-> description]

\* analyzeDocument, once the content has been read
analyzeDocument(filePath, doc) ==
    LET fileName == FileName(filePath)
        sections == SectionsOf(doc, fileName)
        highRelevanceSections == SelectSeq(sections, LAMBDA s : s.relevanceScore > 50)
        selectedSections == SelectSeq(sections, LAMBDA s : s.isSelected)
        totalTokens == (DocChars(doc, 1) + 3) \div 4
    IN [fileName |-> fileName,
        filePath |-> filePath,
        totalSize |-> DocChars(doc, 1),
        totalTokens |-> totalTokens,
        sections |-> sections,
        processingOptions |->
            [quick |-> ProcessingOption(TokenSum(highRelevanceSections, 1),
                          "High relevance sections only ("
                          \o ToString(Len(highRelevanceSections)) \o " sections)"),
             standard |-> ProcessingOption(TokenSum(selectedSections, 1),
                          "Auto-selected relevant sections ("
                          \o ToString(Len(selectedSections)) \o " sections)"),
             deep |-> ProcessingOption(totalTokens,
                          "Complete document analysis (all content)")]]

\* k copies of a word
Repeat(word, k) == [i \in 1..k |-> word]

\* segments: scores 100 (capped), 51, 51, 21, 0, and one under 100 characters
SegmentPool ==
    { Repeat(Word("completion", 10), 40),
      Repeat(Word("schedule", 8), 17),
      Repeat(Word("schedule", 8), 17) \o <<Word("lorem", 5)>>,
      Repeat(Word("Milestone", 9), 7) \o <<Filler(60)>>,
      <<Filler(120)>>,
      <<Word("schedule", 8), Word("update", 6)>> }

Docs == UNION {[1..n -> SegmentPool] : n \in 0..MaxSegments}

-----------------------------------------------------------------------------
(* splitIntoSections from the content on.  The content is a sequence of
   lines joined by "\n".  A line is a heading in the shape of one of the five
   sectionPatterns ("1.1 GENERAL", "GENERAL CONDITIONS", "SECTION 01",
   "PART 1", "CHAPTER 1") or a sentence: words in lower case ended by a full
   stop.  In a segment a line break separates two words as a space does: no
   keyword of two words can be made of the words of these lines, so the
   score, the category and the length of a segment are those of its words. *)

MaxBlocks == 3

\* content.slice(i, i + chunkSize): characters per section
ChunkSize == 2000

Max(a, b) == IF a > b THEN a ELSE b

HeadingWords ==
    << <<Word("1.1", 3), Word("GENERAL", 7)>>,
       <<Word("GENERAL", 7), Word("CONDITIONS", 10)>>,
       <<Word("SECTION", 7), Word("01", 2)>>,
       <<Word("PART", 4), Word("1", 1)>>,
       <<Word("CHAPTER", 7), Word("1", 1)>> >>

\* the heading that sectionPatterns[k - 1] matches, and no other pattern
Heading(k) == [kind |-> k, words |-> HeadingWords[k]]

Sentence(words) == [kind |-> 0, words |-> words \o <<Word("done.", 5)>>]

\* the line holds a '.'
HasPeriod(line) == line.kind \in {0, 1}

\* the last line of the match of pattern p that starts at line i.
\* /^[\d.]+\s+[A-Z][^\.]*$/gm: [^\.]* runs over line ends up to the first
\* '.', and the match ends at the last line end before it;
\* /^[A-Z\s]{3,}$/gm: \s runs over line ends, so headings in capitals on
\* consecutive lines are one match; the other patterns match in one line.
RECURSIVE MatchEnd(_, _, _)
MatchEnd(lines, p, i) ==
    IF i < Len(lines)
       /\ \/ p = 1 /\ ~HasPeriod(lines[i + 1])
          \/ p = 2 /\ lines[i + 1].kind = 2
    THEN MatchEnd(lines, p, i + 1)
    ELSE i

\* content.match(pattern): the matches from line i on, each as the lines it covers
RECURSIVE MatchesFrom(_, _, _)
MatchesFrom(lines, p, i) ==
    IF i > Len(lines) THEN <<>>
    ELSE IF lines[i].kind = p
         THEN <<[first |-> i, last |-> MatchEnd(lines, p, i)]>>
              \o MatchesFrom(lines, p, MatchEnd(lines, p, i) + 1)
    ELSE MatchesFrom(lines, p, i + 1)

MatchesOf(lines, p) == MatchesFrom(lines, p, 1)

\* the words of lines i to j
RECURSIVE FlatWords(_, _, _)
FlatWords(lines, i, j) ==
    IF i > j THEN <<>> ELSE lines[i].words \o FlatWords(lines, i + 1, j)

Blank == Word("", 0)

\* content.split(pattern): the text between the matches; the line break
\* that follows or precedes a match stays at the end of the segment
SplitBy(lines, matches) ==
    [g \in 1..(Len(matches) + 1) |->
        LET from == IF g = 1 THEN 1 ELSE matches[g - 1].last + 1
            to == IF g > Len(matches) THEN Len(lines) ELSE matches[g].first - 1
        IN (IF g > 1 THEN <<Blank>> ELSE <<>>)
           \o FlatWords(lines, from, to)
           \o (IF g <= Len(matches) THEN <<Blank>> ELSE <<>>)]

\* the loop accepting a pattern that has more than one match
SectionSplitsFromTwoMatches(lines, p) ==
    LET accepted == {q \in p..Len(HeadingWords) : Len(MatchesOf(lines, q)) > 1}
    IN IF accepted = {} THEN <<>>
       ELSE SplitBy(lines, MatchesOf(lines, CHOOSE q \in accepted :
                                                \A r \in accepted : q <= r))

\* for (const pattern of sectionPatterns): the split by the first pattern,
\* from p on, that has more than two matches
RECURSIVE SectionSplitsFrom(_, _)
SectionSplitsFrom(lines, p) ==
    IF p > Len(HeadingWords) THEN <<>>
    ELSE IF Len(MatchesOf(lines, p)) > 2 THEN SplitBy(lines, MatchesOf(lines, p))
    ELSE SectionSplitsFrom(lines, p + 1)

\* a part of a word cut by a chunk border; no part of a word of these lines
\* holds a keyword
Fragment(n) == IF n = 0 THEN Blank ELSE Filler(n)

\* content.slice(a, b), from the k-th word on, which starts at character
\* start: the words and parts of words in the slice, with an empty word
\* where the slice starts or ends with the separator
RECURSIVE SliceFrom(_, _, _, _, _)
SliceFrom(txt, k, start, a, b) ==
    IF k > Len(txt) THEN <<>>
    ELSE LET end == start + txt[k].n
             included == (IF k > 1 THEN start <= b ELSE start < b) /\ end >= a
             len == Min(b, end) - Max(a, start)
         IN (IF included
             THEN <<IF len = txt[k].n THEN txt[k] ELSE Fragment(len)>>
             ELSE <<>>)
            \o SliceFrom(txt, k + 1, end + 1, a, b)

\* for (let i = 0; i < content.length; i += chunkSize)
ChunksOf(lines) ==
    LET txt == FlatWords(lines, 1, Len(lines))
        length == Chars(txt)
    IN [c \in 1..((length + ChunkSize - 1) \div ChunkSize) |->
           SliceFrom(txt, 1, 0, (c - 1) * ChunkSize, Min(c * ChunkSize, length))]

\* sectionSplits, after the patterns and the split by length
SectionSplitsOf(lines) ==
    IF Len(SectionSplitsFrom(lines, 1)) <= 1 THEN ChunksOf(lines)
    ELSE SectionSplitsFrom(lines, 1)

splitIntoSections(lines, fileName) == SectionsOf(SectionSplitsOf(lines), fileName)

\* paragraphs: 115, 14, 112 and 1005 characters
Paragraph == Sentence(Repeat(Word("completion", 10), 10))
ShortParagraph == Sentence(<<Word("schedule", 8)>>)
MilestoneParagraph == Sentence(Repeat(Word("Milestone", 9), 7) \o <<Filler(36)>>)
LongParagraph == Sentence(Repeat(Filler(49), 20))

BlockPool ==
    { <<Heading(1), Paragraph>>,
      <<Heading(1), Heading(3), MilestoneParagraph>>,
      <<Heading(2), ShortParagraph>>,
      <<Heading(2), Heading(2), Paragraph>>,
      <<Heading(3), MilestoneParagraph>>,
      <<Heading(4), Paragraph, Heading(5), ShortParagraph>>,
      <<Heading(5), Paragraph>>,
      <<LongParagraph>> }

RECURSIVE Concat(_, _)
Concat(blocks, i) == IF i > Len(blocks) THEN <<>> ELSE blocks[i] \o Concat(blocks, i + 1)

Contents == {Concat(blocks, 1) : blocks \in UNION {[1..n -> BlockPool] : n \in 0..MaxBlocks}}

SplitFileName == "spec.txt"

InitSplit ==
    /\ ScheduleIdle("splitting")
    /\ StoreIdle
    /\ PageIdle
    /\ sectionContent = <<>>
    /\ bestCategory = ""
    /\ analysis = <<>>
    /\ options = <<>>
    /\ contentToProcess = <<>>
    /\ filePaths = <<>>
    /\ storage = <<>>
    /\ analyses = <<>>
    /\ documentContent \in Contents
    /\ documentSections = <<>>

Split ==
    /\ pc = "splitting"
    /\ pc' = "split"
    /\ documentSections' = splitIntoSections(documentContent, SplitFileName)
    /\ UNCHANGED <<scheduleData, storeVars, pageVars, sectionContent, bestCategory,
                   analysis, options, contentToProcess, filePaths, storage, analyses,
                   documentContent>>

NextSplit == Split

SpecSplit == InitSplit /\ [][NextSplit]_vars

-----------------------------------------------------------------------------
(* processContentWithOptions.  The string returned is its words and whether
   the truncation marker was appended to them. *)

\* '... [Content truncated to fit token limit]'.length
MarkerChars == 42

\* a + '\n\n' + b: the last word of a and the first of b become one word
JoinTwo(a, b) ==
    SubSeq(a, 1, Len(a) - 1)
    \o <<Word(a[Len(a)].s \o "\n\n" \o b[1].s, a[Len(a)].n + 2 + b[1].n)>>
    \o Tail(b)

\* contents.join('\n\n'), of texts that are not empty
RECURSIVE JoinFrom(_, _, _)
JoinFrom(contents, i, joined) ==
    IF i > Len(contents) THEN joined
    ELSE JoinFrom(contents, i + 1, JoinTwo(joined, contents[i]))

Join(contents) == IF contents = <<>> THEN <<>> ELSE JoinFrom(contents, 2, contents[1])

ContentsOf(sections) == [i \in 1..Len(sections) |-> sections[i].content]

\* quick sections with the threshold of the automatic selection
quickSectionsSelected(an) == SelectSeq(an.sections, LAMBDA s : s.relevanceScore > 20)

\* analysis.sections.filter(s => s.relevanceScore > 50)
quickSections(an) == SelectSeq(an.sections, LAMBDA s : s.relevanceScore > 50)

\* analysis.sections.filter(s => s.isSelected)
standardSections(an) == SelectSeq(an.sections, LAMBDA s : s.isSelected)

\* analysis.sections.filter(s => options.selectedSections?.includes(s.id))
customSections(an, opt) ==
    SelectSeq(an.sections,
              LAMBDA s : opt.selectedSections.given /\ s.id \in opt.selectedSections.ids)

StringOf(words, marker) == [words |-> words, marker |-> marker]

\* the length of the string returned
StringChars(str) == Chars(str.words) + (IF str.marker THEN MarkerChars ELSE 0)

\* processContentWithOptions cutting whenever a ceiling is given
processContentAlwaysCut(an, opt) ==
    LET sections == CASE opt.mode = "quick" -> quickSections(an)
                      [] opt.mode = "standard" -> standardSections(an)
                      [] opt.mode = "deep" -> an.sections
                      [] opt.mode = "custom" -> customSections(an, opt)
        joined == Join(ContentsOf(sections))
        targetWords == (opt.maxTokens.n * 3) \div 4
    IN IF Truthy(opt.maxTokens)
       THEN StringOf(SubSeq(joined, 1, Min(targetWords, Len(joined))), TRUE)
       ELSE StringOf(joined, FALSE)

processContentWithOptions(an, opt) ==
    LET sections == CASE opt.mode = "quick" -> quickSections(an)
                      [] opt.mode = "standard" -> standardSections(an)
                      [] opt.mode = "deep" -> an.sections
                      [] opt.mode = "custom" -> customSections(an, opt)
        joined == Join(ContentsOf(sections))
        targetWords == (opt.maxTokens.n * 3) \div 4
    IN IF Truthy(opt.maxTokens) /\ estimateTokens(joined) > opt.maxTokens.n
       THEN StringOf(SubSeq(joined, 1, Min(targetWords, Len(joined))), TRUE)
       ELSE StringOf(joined, FALSE)

Selection(given, ids) == [given |-> given, ids |-> ids]

ContentPath == Path("uploads", "spec.pdf")

\* ProcessingOptions: mode, selectedSections (optional), maxTokens (optional)
AllOptions ==
    [mode : {"quick", "standard", "deep", "custom"},
     selectedSections : {Selection(FALSE, {}), Selection(TRUE, {}),
                         Selection(TRUE, {"spec.pdf-section-0"}),
                         Selection(TRUE, {"spec.pdf-section-0", "spec.pdf-section-2",
                                          "plan.pdf-section-1"})},
     maxTokens : {Absent, Num(0), Num(1), Num(60)}]

InitContent ==
    /\ ScheduleIdle("processing")
    /\ StoreIdle
    /\ PageIdle
    /\ documentContent = <<>>
    /\ documentSections = <<>>
    /\ sectionContent = <<>>
    /\ bestCategory = ""
    /\ analysis \in {analyzeDocument(ContentPath, doc) : doc \in Docs}
    /\ options \in AllOptions
    /\ contentToProcess = <<>>
    /\ filePaths = <<>>
    /\ storage = <<>>
    /\ analyses = <<>>

ProcessContent ==
    /\ pc = "processing"
    /\ pc' = "processed"
    /\ contentToProcess' = processContentWithOptions(analysis, options)
    /\ UNCHANGED <<scheduleData, storeVars, pageVars, documentContent,
                   documentSections, sectionContent, bestCategory, analysis, options,
                   filePaths, storage, analyses>>

NextContent == ProcessContent

SpecContent == InitContent /\ [][NextContent]_vars

-----------------------------------------------------------------------------
(* analyzeDocuments: the loop over filePaths, one analysis pushed per path.
   readObjectContent resolves with the stored document or rejects. *)

MaxPaths == 2

\* the analysis pushed by the catch block
FailedAnalysis(filePath) ==
    [fileName |-> FileName(filePath),
     filePath |-> filePath,
     totalSize |-> 0,
     totalTokens |-> 0,
     sections |-> <<>>,
     processingOptions |->
         [quick |-> [tokens |-> 0, cost |-> 0, description |-> "Analysis failed"],
          standard |-> [tokens |-> 0, cost |-> 0, description |-> "Analysis failed"],
          deep |-> [tokens |-> 0, cost |-> 0, description |-> "Analysis failed"]]]

Paths == {Path("uploads", "a.pdf"), Path("uploads", "b.pdf"), Path("plans", "")}

Unreadable == [readable |-> FALSE, doc |-> <<>>]
Readable(doc) == [readable |-> TRUE, doc |-> doc]

StoredDocs ==
    { <<Repeat(Word("completion", 10), 40)>>,
      <<<<Filler(120)>>, Repeat(Word("schedule", 8), 17)>>,
      <<>> }

Storages == [Paths -> {Unreadable} \cup {Readable(doc) : doc \in StoredDocs}]

\* try { await analyzeDocument(filePath) } catch { ... }: the analysis pushed
AnalysisPushed(filePath, stored) ==
    IF stored.readable THEN analyzeDocument(filePath, stored.doc)
    ELSE FailedAnalysis(filePath)

InitAnalyze ==
    /\ ScheduleIdle("analyzing")
    /\ StoreIdle
    /\ PageIdle
    /\ documentContent = <<>>
    /\ documentSections = <<>>
    /\ sectionContent = <<>>
    /\ bestCategory = ""
    /\ analysis = <<>>
    /\ options = <<>>
    /\ contentToProcess = <<>>
    /\ filePaths \in UNION {[1..n -> Paths] : n \in 0..MaxPaths}
    /\ storage \in Storages
    /\ analyses = <<>>

\* one turn of the loop with the rejection left uncaught
AnalyzeNextUncaught ==
    /\ pc = "analyzing"
    /\ Len(analyses) < Len(filePaths)
    /\ LET filePath == filePaths[Len(analyses) + 1]
       IN IF storage[filePath].readable
          THEN /\ analyses' = Append(analyses, analyzeDocument(filePath, storage[filePath].doc))
               /\ pc' = pc
          ELSE /\ analyses' = analyses
               /\ pc' = "thrown"
    /\ UNCHANGED <<scheduleData, storeVars, pageVars, documentContent,
                   documentSections, sectionContent, bestCategory, analysis, options,
                   contentToProcess, filePaths, storage>>

\* one turn of the loop over filePaths
AnalyzeNext ==
    /\ pc = "analyzing"
    /\ Len(analyses) < Len(filePaths)
    /\ LET filePath == filePaths[Len(analyses) + 1]
       IN analyses' = Append(analyses, AnalysisPushed(filePath, storage[filePath]))
    /\ UNCHANGED <<pc, scheduleData, storeVars, pageVars, documentContent,
                   documentSections, sectionContent, bestCategory, analysis, options,
                   contentToProcess, filePaths, storage>>

\* return analyses
AnalyzeReturn ==
    /\ pc = "analyzing"
    /\ Len(analyses) = Len(filePaths)
    /\ pc' = "analyzed"
    /\ UNCHANGED <<scheduleData, triageVars, storeVars, pageVars>>

NextAnalyze ==
    \/ AnalyzeNext
    \/ AnalyzeReturn

SpecAnalyze == InitAnalyze /\ [][NextAnalyze]_vars

-----------------------------------------------------------------------------
(* DbStorage.setActiveBaseline (src/unnamed/part_002, lines 1846-1863).  Each
   awaited update is one statement, atomic in the database; the calls of
   concurrent requests interleave at their awaits. *)

MaxCalls == 2

ProjectIds == {"p1", "p2"}
BaselineIds == {"b1", "b2", "b3"}

ActiveOf(rows, projectId) ==
    {b \in DOMAIN rows : rows[b].projectId = projectId /\ rows[b].isActive}

\* tables in which every project has at most one active baseline
BaselineTables ==
    {rows \in [BaselineIds -> [projectId : ProjectIds, isActive : BOOLEAN]] :
         \A pr \in ProjectIds : Cardinality(ActiveOf(rows, pr)) <= 1}

\* setActiveBaseline(projectId, baselineId), about to run its first statement
BaselineCall(projectId, baselineId) ==
    [projectId |-> projectId, baselineId |-> baselineId, at |-> "deactivate"]

InitBaseline ==
    /\ ScheduleIdle("baselines")
    /\ TriageIdle
    /\ PageIdle
    /\ baselineRows \in BaselineTables
    /\ baselineCalls \in UNION {[1..n -> {BaselineCall("p1", b) : b \in BaselineIds}] :
                                    n \in 1..MaxCalls}
    /\ activityRows = {}
    /\ relationshipRows = {}
    /\ deletion = <<>>

\* update(baselines).set({ isActive: false }).where(eq(projectId, projectId))
DeactivateAll(c) ==
    /\ baselineCalls[c].at = "deactivate"
    /\ baselineRows' =
           [b \in DOMAIN baselineRows |->
               IF baselineRows[b].projectId = baselineCalls[c].projectId
               THEN [baselineRows[b] EXCEPT !.isActive = FALSE]
               ELSE baselineRows[b]]
    /\ baselineCalls' = [baselineCalls EXCEPT ![c].at = "activate"]
    /\ UNCHANGED <<pc, scheduleData, triageVars, pageVars, activityRows,
                   relationshipRows, deletion>>

\* update(baselines).set({ isActive: true })
\*     .where(and(eq(id, baselineId), eq(projectId, projectId)))
ActivateOne(c) ==
    /\ baselineCalls[c].at = "activate"
    /\ baselineRows' =
           [b \in DOMAIN baselineRows |->
               IF b = baselineCalls[c].baselineId
                  /\ baselineRows[b].projectId = baselineCalls[c].projectId
               THEN [baselineRows[b] EXCEPT !.isActive = TRUE]
               ELSE baselineRows[b]]
    /\ baselineCalls' = [baselineCalls EXCEPT ![c].at = "returned"]
    /\ UNCHANGED <<pc, scheduleData, triageVars, pageVars, activityRows,
                   relationshipRows, deletion>>

\* the statement the call is at rejects: catch, console.error, throw error
UpdateFails(c) ==
    /\ baselineCalls[c].at \in {"deactivate", "activate"}
    /\ baselineCalls' = [baselineCalls EXCEPT ![c].at = "thrown"]
    /\ UNCHANGED <<pc, scheduleData, triageVars, pageVars, baselineRows, activityRows,
                   relationshipRows, deletion>>

NextBaseline ==
    \/ \E c \in 1..Len(baselineCalls) : DeactivateAll(c)
    \/ \E c \in 1..Len(baselineCalls) : ActivateOne(c)
    \/ \E c \in 1..Len(baselineCalls) : UpdateFails(c)

SpecBaseline == InitBaseline /\ [][NextBaseline]_vars

-----------------------------------------------------------------------------
(* DbStorage.deleteActivity (src/unnamed/part_002, lines 1564-1577): three
   awaited delete statements inside one try; a statement that rejects ends
   the call in the catch, which returns false. *)

StoredActivityIds == {"a1", "a2", "a3"}

\* tables in which every relationship joins two activities of the table
ActivityTables ==
    {[activities |-> acts, relationships |-> rels] :
        acts \in SUBSET StoredActivityIds,
        rels \in SUBSET {r \in StoredActivityIds \X StoredActivityIds : r[1] # r[2]}}

Consistent(t) ==
    \A r \in t.relationships : r[1] \in t.activities /\ r[2] \in t.activities

InitDelete ==
    /\ ScheduleIdle("deleting")
    /\ TriageIdle
    /\ PageIdle
    /\ baselineRows = <<>>
    /\ baselineCalls = <<>>
    /\ \E t \in {u \in ActivityTables : Consistent(u)} :
           /\ activityRows = t.activities
           /\ relationshipRows = t.relationships
           /\ \E id \in StoredActivityIds :
                  deletion = [id |-> id, at |-> "predecessors", returned |-> FALSE,
                              before |-> t]

\* db.delete(relationships).where(eq(relationships.predecessorId, id))
DeletePredecessorLinks ==
    /\ deletion.at = "predecessors"
    /\ relationshipRows' = {r \in relationshipRows : r[1] # deletion.id}
    /\ deletion' = [deletion EXCEPT !.at = "successors"]
    /\ UNCHANGED <<pc, scheduleData, triageVars, pageVars, baselineRows, baselineCalls,
                   activityRows>>

\* db.delete(relationships).where(eq(relationships.successorId, id))
DeleteSuccessorLinks ==
    /\ deletion.at = "successors"
    /\ relationshipRows' = {r \in relationshipRows : r[2] # deletion.id}
    /\ deletion' = [deletion EXCEPT !.at = "activity"]
    /\ UNCHANGED <<pc, scheduleData, triageVars, pageVars, baselineRows, baselineCalls,
                   activityRows>>

\* db.delete(activities).where(eq(activities.id, id)); return result.rowCount > 0
DeleteRow ==
    /\ deletion.at = "activity"
    /\ activityRows' = activityRows \ {deletion.id}
    /\ deletion' = [deletion EXCEPT !.at = "returned",
                                    !.returned = (deletion.id \in activityRows)]
    /\ UNCHANGED <<pc, scheduleData, triageVars, pageVars, baselineRows, baselineCalls,
                   relationshipRows>>

\* the statement the call is at rejects: catch, console.error, return false
DeleteFails ==
    /\ deletion.at \in {"predecessors", "successors", "activity"}
    /\ deletion' = [deletion EXCEPT !.at = "returned", !.returned = FALSE]
    /\ UNCHANGED <<pc, scheduleData, triageVars, pageVars, baselineRows, baselineCalls,
                   activityRows, relationshipRows>>

NextDelete ==
    \/ DeletePredecessorLinks
    \/ DeleteSuccessorLinks
    \/ DeleteRow
    \/ DeleteFails

SpecDelete == InitDelete /\ [][NextDelete]_vars

-----------------------------------------------------------------------------
(* handleGenerateSchedule of the schedule page (src/unnamed/part_000, lines
   424-465).  The page is a function component: isGenerating inside the
   handler and inside the callbacks of its timers is the constant of the
   render that created the handler.  The button that calls the handler is
   disabled while isGenerating is true (line 828). *)

MaxSeconds == 40

\* the delays of progressTimer1, progressTimer2, progressTimer3, in seconds
TimerDelays == <<5, 20, 35>>

StageMessages ==
    <<"Analyzing uploaded documents (this may take 30-60 seconds)...",
      "Building CPM schedule with dependencies...",
      "Finalizing schedule and calculating critical path...">>

InitPage ==
    /\ ScheduleIdle("page")
    /\ TriageIdle
    /\ StoreIdle
    /\ PageIdle

\* the button is clicked: handleGenerateSchedule runs up to its await
ClickGenerate ==
    /\ ~isGenerating
    /\ mutation # "pending"
    /\ \E blank \in BOOLEAN :          \* !projectDescription.trim()
           IF blank
           THEN UNCHANGED pageVars       \* toast, return
           ELSE /\ closure' = isGenerating
                /\ isGenerating' = TRUE
                /\ generationProgress' = "Initializing AI analysis..."
                /\ progressTimers' = <<"armed", "armed", "armed">>
                /\ mutation' = "pending"
                /\ clock' = 0
    /\ UNCHANGED <<pc, scheduleData, triageVars, storeVars>>

\* a second passes; a timer that is due runs first
Tick ==
    /\ mutation = "pending"
    /\ clock < MaxSeconds
    /\ \A k \in 1..3 : progressTimers[k] = "armed" => clock < TimerDelays[k]
    /\ clock' = clock + 1
    /\ UNCHANGED <<pc, scheduleData, triageVars, storeVars, isGenerating,
                   generationProgress, closure, progressTimers, mutation>>

\* the callback of progressTimer k: if (isGenerating) setGenerationProgress(...)
TimerCallback(k) ==
    /\ progressTimers[k] = "armed"
    /\ clock >= TimerDelays[k]
    /\ progressTimers' = [progressTimers EXCEPT ![k] = "fired"]
    /\ generationProgress' = IF closure THEN StageMessages[k] ELSE generationProgress
    /\ UNCHANGED <<pc, scheduleData, triageVars, storeVars, isGenerating, closure,
                   mutation, clock>>

\* mutateAsync settles: the finally block
MutationSettles ==
    /\ mutation = "pending"
    /\ \E how \in {"resolved", "rejected"} : mutation' = how
    /\ isGenerating' = FALSE
    /\ generationProgress' = ""
    /\ progressTimers' = [k \in 1..3 |-> IF progressTimers[k] = "armed" THEN "cleared"
                                          ELSE progressTimers[k]]
    /\ UNCHANGED <<pc, scheduleData, triageVars, storeVars, closure, clock>>

NextPage ==
    \/ ClickGenerate
    \/ Tick
    \/ \E k \in 1..3 : TimerCallback(k)
    \/ MutationSettles

SpecPage == InitPage /\ [][NextPage]_vars

-----------------------------------------------------------------------------
(* Properties *)

Done == pc = "done"
InvocationFailed == winner \in {"error", "timeout"}
Returns == outcome \in {"success", "fallback", "empty"}

ActivityIds(acts) == {acts[i].activityId : i \in 1..Len(acts)}

\* C1: whenever the remote call rejects or the timeout fires first,
\* generateScheduleWithAI resolves with the fixed fallback schedule and its
\* degraded-service note; nothing is thrown to the caller.
C1_FailureYieldsFallback ==
    (Done /\ InvocationFailed) =>
        /\ outcome = "fallback"
        /\ result.summary = DemoSummary

\* C2: for every request, every shape of remote response, every remote
\* failure and every outcome of the document reads, the request ends in one of
\* success, fallback schedule or diagnostic empty result; it never throws.
C2_NeverThrows == Done => Returns

\* C3: on the fallback path the activities are exactly A001 Site Preparation
\* (5 days), A002 Foundation Work (10 days), A003 Structure Assembly (15 days),
\* chained by predecessors and successors, all with total float 0 and critical,
\* and criticalPath is [A001, A002, A003], whatever the request.
ExpectedDemo ==
    << [id |-> "A001", name |-> "Site Preparation", days |-> 5,
        pred |-> <<>>, succ |-> <<"A002">>],
       [id |-> "A002", name |-> "Foundation Work", days |-> 10,
        pred |-> <<"A001">>, succ |-> <<"A003">>],
       [id |-> "A003", name |-> "Structure Assembly", days |-> 15,
        pred |-> <<"A002">>, succ |-> <<>>] >>

C3_FallbackSchedule ==
    outcome = "fallback" =>
        /\ Len(result.activities) = 3
        /\ \A i \in 1..3 :
              /\ result.activities[i].activityId = Str(ExpectedDemo[i].id)
              /\ result.activities[i].activityName = Str(ExpectedDemo[i].name)
              /\ result.activities[i].duration = Num(ExpectedDemo[i].days)
              /\ result.activities[i].predecessors = Arr(ExpectedDemo[i].pred)
              /\ result.activities[i].successors = Arr(ExpectedDemo[i].succ)
              /\ result.activities[i].totalFloat = Num(0)
              /\ result.activities[i].isCritical = Bool(TRUE)
        /\ result.criticalPath = <<Str("A001"), Str("A002"), Str("A003")>>

C3_Witness ==
    /\ outcome = "fallback"
    /\ winner = "timeout"
    /\ request.type = "update"
    /\ request.nFiles > 0
    /\ request.startDate = DateStr(10)

\* C4: a strategy's result is accepted only if it parsed to an object with a
\* top-level activities-like field; otherwise the cascade goes on to the next
\* strategy.  So whatever one of the parsing strategies 1 to 4 returned is
\* such an object.
C4_AcceptedOnlyWithActivities ==
    (Done /\ recovered.strategy \in 1..4) => CandidateAccepted(recovered.value)

\* C5: for a raw output that is prose only (also prose using the word
\* Activity), recovery returns no activities and a non-empty diagnostic
\* summary, and does not throw.
IsProse(text) ==
    /\ Len(text) > 0
    /\ \A i \in 1..Len(text) : text[i].c \in {"w", "Act", "nl"}

C5_ProseYieldsEmpty ==
    (Done /\ winner = "response" /\ IsProse(content)) =>
        /\ outcome = "empty"
        /\ result.activities = <<>>
        /\ Truthy(result.summary)

\* C6: for a raw output  text, fenced block holding a JSON object with an
\* activities array, text  the object handed to the normalisation is the
\* object inside the fence, whatever braces the surrounding text holds.
FencedCases ==
    {[text |-> Wrap(b, k, ScheduleText(items, TRUE), a),
      object |-> ParsedObj(Arr(<<>>), items, Absent, Absent)] :
        b \in PlainBefores, k \in {"json", "generic"}, items \in RecoverLists,
        a \in Afters}

C6_FencedObjectRecovered ==
    \A c \in FencedCases :
        (Done /\ winner = "response" /\ content = c.text) =>
            /\ parsed.value = c.object
            /\ (variant = 1 => parsed.strategy \in {2, 3})

\* C7: in every activity list returned, an activity is critical if and only
\* if its total float is 0.
C7_CriticalIffZeroFloat ==
    (Done /\ Returns) =>
        \A i \in 1..Len(result.activities) :
            (result.activities[i].isCritical = Bool(TRUE))
                <=> (result.activities[i].totalFloat = Num(0))

\* C8: after normalisation every entry of every predecessors list is the
\* activityId of an activity of the same list.
C8_NoDanglingPredecessor ==
    (Done /\ outcome = "success") =>
        \A i \in 1..Len(result.activities) :
            \A j \in 1..Len(result.activities[i].predecessors.a) :
                Str(result.activities[i].predecessors.a[j]) \in ActivityIds(result.activities)

\* C9: in every list returned every activity has a non-empty activityId and
\* no two activities share one.
C9_UniqueActivityIds ==
    (Done /\ Returns) =>
        /\ \A i \in 1..Len(result.activities) : Truthy(result.activities[i].activityId)
        /\ \A i, j \in 1..Len(result.activities) :
              result.activities[i].activityId = result.activities[j].activityId => i = j

\* C10: normalisation is idempotent: the normalised activities passed through
\* the normalisation again (same request) come back with every field
\* unchanged and no activityId reassigned.
C10_NormalizationIdempotent ==
    renorm.done => (~renorm.threw /\ renorm.activities = result.activities)

C10_Witness ==
    /\ renorm.done
    /\ Len(result.activities) = 2
    /\ parsed.value.items[2].activityId = Absent
    /\ parsed.value.items[2].duration = NumStr(5)
    /\ result.activities[2].activityId = Str("A001")

\* C11: every normalised activity's duration is a positive integer, whatever
\* the raw duration (missing, zero, non-numeric, negative).
C11_DurationPositive ==
    (Done /\ outcome = "success") =>
        \A i \in 1..Len(result.activities) :
            /\ result.activities[i].duration.k = "num"
            /\ result.activities[i].duration.n > 0

\* C12: every normalised activity's finishDate is its startDate plus its
\* duration in days, except that an explicit finish date of the raw activity
\* that is not earlier than the start date is kept.
C12_FinishDate ==
    (Done /\ outcome = "success" /\ Len(parsed.value.items) = Len(result.activities)) =>
        \A i \in 1..Len(result.activities) :
            LET raw == parsed.value.items[i]
                out == result.activities[i]
                start == DayOf(out.startDate)
            IN IF raw.finishDate.k = "date" /\ raw.finishDate.n >= start
               THEN out.finishDate = raw.finishDate
               ELSE out.finishDate = DateStr(start + out.duration.n)

\* C13: a request issues exactly one call to the remote generator on every
\* path: never more than one while it runs, exactly one when it has ended,
\* whether by success, fallback, empty result or throw.
C13_ExactlyOneCall ==
    /\ calls <= 1
    /\ pc \in {"awaiting", "done"} => calls = 1

C13_Witness ==
    /\ Done
    /\ winner = "error"
    /\ outcome = "fallback"
    /\ calls = 1

\* C14: once Promise.race has settled and the request has ended, the loser
\* of the race (the timeout firing late, the call settling late) changes
\* neither the result returned nor any other state of the request.
C14_LoserHasNoEffect ==
    [][pc = "done" =>
          /\ outcome' = outcome
          /\ result' = result
          /\ winner' = winner
          /\ content' = content
          /\ recovered' = recovered
          /\ parsed' = parsed
          /\ calls' = calls
          /\ filesRead' = filesRead
          /\ request' = request
          /\ pc' = pc]_vars

C14_Witness ==
    /\ Done
    /\ winner = "timeout"
    /\ api = "resolved"
    /\ outcome = "fallback"

\* C17: in every result criticalPath is the sequence of the activityIds of
\* the activities whose isCritical is true, in the order of the activities
\* list, and empty when there are no activities.
CriticalIndexes(acts) == {i \in 1..Len(acts) : acts[i].isCritical = Bool(TRUE)}

C17_CriticalPathIsCriticalIds ==
    (Done /\ Returns) =>
        LET acts == result.activities
            cp == result.criticalPath
        IN /\ Len(cp) = Cardinality(CriticalIndexes(acts))
           /\ \A k \in 1..Len(cp) :
                 \E i \in CriticalIndexes(acts) :
                     /\ cp[k] = acts[i].activityId
                     /\ Cardinality({j \in CriticalIndexes(acts) : j < i}) = k - 1

C17_Witness ==
    /\ Done
    /\ outcome = "success"
    /\ Len(result.activities) = 2
    /\ result.activities[1].isCritical = Bool(TRUE)
    /\ result.activities[2].isCritical = Bool(FALSE)
    /\ result.criticalPath = <<Str("A002")>>

\* C18: every activity of every list returned has a status that is one of
\* NotStarted, InProgress, Completed.
CanonicalStatuses == {Str("NotStarted"), Str("InProgress"), Str("Completed")}

C18_StatusCanonical ==
    (Done /\ Returns) =>
        \A i \in 1..Len(result.activities) :
            result.activities[i].status \in CanonicalStatuses

\* C19: every normalised activity has percentComplete within 0..100.
C19_PercentCompleteInRange ==
    (Done /\ outcome = "success") =>
        \A i \in 1..Len(result.activities) :
            /\ result.activities[i].percentComplete.k = "num"
            /\ result.activities[i].percentComplete.n \in 0..100

\* C20: categorizeContent returns the category whose keywords have strictly
\* more hits than those of every other category, and 'other' whenever two or
\* more categories tie for the highest number of hits (all zero included).
TopCategories(txt) ==
    {c \in 1..Len(CATEGORY_KEYWORDS) :
        \A d \in 1..Len(CATEGORY_KEYWORDS) : CategoryScore(txt, d) <= CategoryScore(txt, c)}

C20_MajorityElseOther ==
    pc = "categorized" =>
        IF Cardinality(TopCategories(sectionContent)) = 1
        THEN \E c \in TopCategories(sectionContent) : bestCategory = CATEGORY_KEYWORDS[c].category
        ELSE bestCategory = "other"

\* C15: with no maxTokens ceiling processContentWithOptions returns the
\* concatenation of exactly the sections of its mode, in the order of the
\* analysis: quick, those with relevanceScore > 50, in descending score
\* order; standard, those with isSelected; deep, all; custom, those whose id
\* is in selectedSections.
InMode(s) ==
    CASE options.mode = "quick" -> s.relevanceScore > 50
      [] options.mode = "standard" -> s.isSelected
      [] options.mode = "deep" -> TRUE
      [] options.mode = "custom" ->
             options.selectedSections.given /\ s.id \in options.selectedSections.ids

C15_ModeSelectsExactly ==
    (pc = "processed" /\ options.maxTokens = Absent) =>
        LET expected == SelectSeq(analysis.sections, InMode)
        IN /\ contentToProcess = StringOf(Join(ContentsOf(expected)), FALSE)
           /\ options.mode = "quick" =>
                 \A i, j \in 1..Len(expected) :
                     i < j => expected[i].relevanceScore >= expected[j].relevanceScore

C15_Witness ==
    /\ pc = "processed"
    /\ options.mode = "quick"
    /\ options.maxTokens = Absent
    /\ Len(analysis.sections) = 3
    /\ analysis.sections[1].relevanceScore = 100
    /\ analysis.sections[2].relevanceScore = 51
    /\ analysis.sections[3].relevanceScore = 21
    /\ contentToProcess.words =
           JoinTwo(analysis.sections[1].content, analysis.sections[2].content)

\* C16: analyzeDocuments never raises; it returns one analysis per path in
\* the order of the paths; a path whose read fails has a zero-section
\* analysis with the failure note, and every other path has the analysis it
\* has when analysed alone.
C16_OneAnalysisPerPath ==
    /\ pc \in {"analyzing", "analyzed"}
    /\ pc = "analyzed" =>
          /\ Len(analyses) = Len(filePaths)
          /\ \A i \in 1..Len(filePaths) :
                /\ analyses[i].filePath = filePaths[i]
                /\ IF storage[filePaths[i]].readable
                   THEN analyses[i] = analyzeDocument(filePaths[i], storage[filePaths[i]].doc)
                   ELSE /\ analyses[i].sections = <<>>
                        /\ analyses[i].totalTokens = 0
                        /\ analyses[i].processingOptions.deep.description
                               = "Analysis failed"

C16_Witness ==
    /\ pc = "analyzed"
    /\ Len(filePaths) = 2
    /\ ~storage[filePaths[1]].readable
    /\ storage[filePaths[2]].readable
    /\ Len(analyses[2].sections) = 1
    /\ analyses[1].sections = <<>>

\* C24: when the line-by-line reconstruction of a text without explicit links
\* produces the activities, the activities returned form a chain: the first
\* has no predecessors and each later one has exactly the id of the one
\* before it as its predecessors.
HasExplicitLinks(text) ==
    \E i \in 1..Len(text) : text[i].c = "m" /\ text[i].key \in {"predecessors", "successors"}

IsChain(acts) ==
    \A i \in 1..Len(acts) :
        acts[i].predecessors =
            (IF i = 1 THEN Arr(<<>>) ELSE Arr(<<acts[i - 1].activityId.s>>))

C24_ReconstructedChain ==
    (Done /\ outcome = "success" /\ parsed.strategy \in {5, 6}
          /\ ~HasExplicitLinks(content)) => IsChain(result.activities)

\* C25: within one request the read of every uploaded file has ended, with
\* its content or with its failure recorded, before the prompt is built and
\* the remote call is issued: once the request has left the reading of the
\* files there is one outcome per file, and no read happens after the call.
C25_ReadsBeforeCall ==
    (pc # "reading" \/ calls > 0) => Len(filesRead) = request.nFiles

C25_Witness ==
    /\ pc = "awaiting"
    /\ calls = 1
    /\ request.nFiles = 2
    /\ filesRead = <<TRUE, FALSE>>

\* the concatenation of the sections of the mode, before any ceiling applies
Concatenated == Join(ContentsOf(SelectSeq(analysis.sections, InMode)))

\* the result is the first floor(0.75 * maxTokens) words of the content (all
\* of them if there are fewer) followed by the truncation marker
CutToBudget ==
    /\ contentToProcess.marker
    /\ contentToProcess.words =
           SubSeq(Concatenated, 1,
                  Min((options.maxTokens.n * 3) \div 4, Len(Concatenated)))

\* the content is returned as it is, without the marker
Unmodified == contentToProcess = StringOf(Concatenated, FALSE)

C26_ResultFitsBudget ==
    (pc = "processed" /\ options.maxTokens # Absent) =>
        (StringChars(contentToProcess) + 3) \div 4 <= options.maxTokens.n

ByDescendingScore(sections) ==
    \A i, j \in 1..Len(sections) :
        i < j => sections[i].relevanceScore >= sections[j].relevanceScore

\* C23: the sections of every analysis are in non-increasing relevanceScore
\* order and every relevanceScore lies in 0..100, so the sections of any
\* mode are in descending score order and the content returned is their
\* concatenation in that order (up to the cut).
C23_SectionsByDescendingScore ==
    /\ ByDescendingScore(analysis.sections)
    /\ \A i \in 1..Len(analysis.sections) :
           analysis.sections[i].relevanceScore \in 0..100
    /\ pc = "processed" =>
           /\ ByDescendingScore(SelectSeq(analysis.sections, InMode))
           /\ contentToProcess.words =
                  SubSeq(Concatenated, 1, Len(contentToProcess.words))

C23_Witness ==
    /\ pc = "processed"
    /\ options.mode = "deep"
    /\ options.maxTokens = Absent
    /\ Len(analysis.sections) = 3
    /\ analysis.sections[1].id = "spec.pdf-section-2"
    /\ analysis.sections[1].relevanceScore = 100
    /\ analysis.sections[2].id = "spec.pdf-section-1"
    /\ analysis.sections[2].relevanceScore = 21
    /\ analysis.sections[3].id = "spec.pdf-section-0"
    /\ analysis.sections[3].relevanceScore = 0
    /\ Len(contentToProcess.words) = Len(Concatenated)

SectionIds(sections) == {sections[i].id : i \in 1..Len(sections)}

\* C27: in every analysis of analyzeDocument each section has
\* isSelected = (relevanceScore > 20); so the sections of quick mode are
\* among those of standard mode, which are among those of deep mode, and the
\* quick token estimate is at most the standard token estimate.
C27_ModesNested ==
    /\ \A i \in 1..Len(analysis.sections) :
           analysis.sections[i].isSelected = (analysis.sections[i].relevanceScore > 20)
    /\ SectionIds(quickSections(analysis)) \subseteq SectionIds(standardSections(analysis))
    /\ SectionIds(standardSections(analysis)) \subseteq SectionIds(analysis.sections)
    /\ analysis.processingOptions.quick.tokens <= analysis.processingOptions.standard.tokens

C27_Witness ==
    /\ pc = "processed"
    /\ options.mode = "standard"
    /\ options.maxTokens = Absent
    /\ Len(analysis.sections) = 3
    /\ contentToProcess.words =
           JoinTwo(analysis.sections[1].content, analysis.sections[2].content)
    /\ Len(quickSections(analysis)) = 1
    /\ Len(standardSections(analysis)) = 2
    /\ analysis.sections[2].relevanceScore = 21
    /\ analysis.sections[2].isSelected
    /\ ~analysis.sections[3].isSelected
    /\ analysis.processingOptions.quick.tokens < analysis.processingOptions.standard.tokens
    /\ analysis.processingOptions.standard.tokens < analysis.processingOptions.deep.tokens

\* the segments of the content when the patterns of the set qualify: the
\* split by the first of them, or the chunks of 2000 characters if there is none
SegmentsWhen(qualified) ==
    IF qualified = {} THEN ChunksOf(documentContent)
    ELSE SplitBy(documentContent,
                 MatchesOf(documentContent,
                           CHOOSE q \in qualified : \A r \in qualified : q <= r))

\* every segment of trimmed length 100 or more is the content of exactly one
\* section, whose id carries the index of the segment; the others of none
OneSectionPerSegment(segments) ==
    LET kept == {i \in 1..Len(segments) : TrimChars(segments[i]) >= 100}
    IN /\ Len(documentSections) = Cardinality(kept)
       /\ \A i \in kept :
              \E j \in 1..Len(documentSections) :
                  /\ documentSections[j].id
                         = SplitFileName \o "-section-" \o ToString(i - 1)
                  /\ documentSections[j].content = segments[i]

\* C21 as stated: splitIntoSections uses the first pattern, in the fixed
\* order, that yields more than two segments (two matches or more), or chunks
\* of 2000 characters if no pattern does; segments of trimmed length under
\* 100 are discarded and every other segment becomes exactly one section.
C21_FirstPatternWithSegments ==
    pc = "split" =>
        OneSectionPerSegment(SegmentsWhen(
            {p \in 1..Len(HeadingWords) : Len(MatchesOf(documentContent, p)) + 1 > 2}))

\* C21, amended: splitIntoSections uses the first pattern, in the fixed
\* order, that has more than two matches (so yields four segments or more),
\* or chunks of 2000 characters if no pattern has; segments of trimmed length
\* under 100 are discarded and every other segment becomes exactly one
\* section.
C21_FirstPatternWithMatches ==
    pc = "split" =>
        OneSectionPerSegment(SegmentsWhen(
            {p \in 1..Len(HeadingWords) : Len(MatchesOf(documentContent, p)) > 2}))

\* the first pattern has matches, too few; the third is used; the segment
\* before its first match is discarded
C21_Witness ==
    /\ pc = "split"
    /\ Len(MatchesOf(documentContent, 1)) \in 1..2
    /\ Len(MatchesOf(documentContent, 3)) = 3
    /\ Len(SectionSplitsOf(documentContent)) = 4
    /\ TrimChars(SectionSplitsOf(documentContent)[1]) \in 1..99
    /\ Len(documentSections) = 3
    /\ \A j \in 1..3 : documentSections[j].id # "spec.txt-section-0"

\* C28: once the setActiveBaseline calls made for one project have all
\* returned, whatever the interleaving of their two updates, at most one
\* baseline of the project has isActive = true, and it is one a call named.
C28_AtMostOneActive ==
    (\A c \in 1..Len(baselineCalls) : baselineCalls[c].at = "returned") =>
        /\ Cardinality(ActiveOf(baselineRows, "p1")) <= 1
        /\ \A b \in ActiveOf(baselineRows, "p1") :
               \E c \in 1..Len(baselineCalls) : baselineCalls[c].baselineId = b

\* C29: deleteActivity is all-or-nothing: it returns true and the activity
\* and every relationship naming it are gone, or it returns false and the
\* activities and the relationships are as they were before the call, also
\* when one of its delete statements fails.
C29_AllOrNothing ==
    (pc = "deleting" /\ deletion.at = "returned") =>
        IF deletion.returned
        THEN /\ deletion.id \notin activityRows
             /\ \A r \in relationshipRows : r[1] # deletion.id /\ r[2] # deletion.id
        ELSE /\ activityRows = deletion.before.activities
             /\ relationshipRows = deletion.before.relationships

\* C30: while the generate request is in flight, the isGenerating the timer
\* callbacks test is the one in effect (true), and once a progress timer has
\* fired generationProgress is the stage message of the last timer fired.
C30_ProgressFollowsTimers ==
    mutation = "pending" =>
        /\ closure = isGenerating
        /\ \A k \in 1..3 :
               (progressTimers[k] = "fired"
                /\ \A j \in (k + 1)..3 : progressTimers[j] # "fired")
                   => generationProgress = StageMessages[k]

=============================================================================
